---------------------------- MODULE Spec2Model ----------------------------
(***************************************************************************)
(* A model of gptools.util.fft: the scale evaluators, the coefficient      *)
(* codecs, the transforms and the Jacobian evaluators for Gaussian         *)
(* processes in the real-FFT domain (src/gptools-util/gptools/util/fft.py).*)
(*                                                                         *)
(* Arithmetic is exact.  A real number is x / sqrt(r) with x and r in      *)
(* Q(sqrt 3), the field that holds the cosines and sines of the multiples  *)
(* of 30 degrees, so that the discrete Fourier transforms of sizes 1, 2,   *)
(* 3, 4 and 6 are computed without rounding.  Python's 0-based arrays are  *)
(* 1-based sequences here: index i of the source is index i + 1.           *)
(***************************************************************************)
EXTENDS Integers, Sequences, FiniteSets, Bags, TLC

VARIABLES pc, arg, mid, res

vars == <<pc, arg, mid, res>>

\* ------------------------------------------------------------------ bounds

\* Largest 1D size the codec and formula checks range over.
MaxSize == 4
\* Largest height and width the 2D checks range over.
MaxDim == 3
\* Entries of the enumerated real vectors lie in -MaxVal..MaxVal.
MaxVal == 1
\* Largest height and width the checks of the 2D scale and of the 2D Jacobian
\* range over.
MaxGrid == 4

\* --------------------------------------------------------------- integers

Abs(n) == IF n < 0 THEN -n ELSE n

Sgn(n) == IF n < 0 THEN -1 ELSE 1

Min(a, b) == IF a < b THEN a ELSE b

Max(a, b) == IF a > b THEN a ELSE b

RECURSIVE GCD(_, _)
GCD(a, b) == IF b = 0 THEN a ELSE GCD(b, a % b)

\* Python's slice s[lo:hi] of a sequence (bounds are clamped, never an error).
Slice(s, lo, hi) == SubSeq(s, Max(lo, 0) + 1, Min(hi, Len(s)))

\* Python's s[lo:].
SliceFrom(s, lo) == Slice(s, lo, Len(s))

\* A sequence given by a rule, held as the tuple of its entries (TLC evaluates the
\* rule once per entry, not once per read).
Tup(f) == f \o <<>>

\* dispatch.flip along the only axis of a vector.
flip(s) == Tup([i \in 1..Len(s) |-> s[Len(s) + 1 - i]])

\* dispatch.concatenate of two vectors along the last axis.
concatenate(s, t) == s \o t

\* ------------------------------------------------------ the field Q(sqrt 3)

\* (a + b * sqrt 3) / d for d > 0 with the common factor g divided out.
Lowest(a, b, d, g) == [a |-> a \div g, b |-> b \div g, d |-> d \div g]

\* (a + b * sqrt 3) / d in lowest terms with d > 0: one record per number.
Q3(a, b, d) ==
    Lowest(Sgn(d) * a, Sgn(d) * b, Abs(d), GCD(GCD(Abs(a), Abs(b)), Abs(d)))

QInt(n) == [a |-> n, b |-> 0, d |-> 1]

QZero == QInt(0)

QOne == QInt(1)

QAdd(x, y) == Q3(x.a * y.d + y.a * x.d, x.b * y.d + y.b * x.d, x.d * y.d)

QNeg(x) == [a |-> -x.a, b |-> -x.b, d |-> x.d]

QSub(x, y) == QAdd(x, QNeg(y))

QMul(x, y) == Q3(x.a * y.a + 3 * x.b * y.b, x.a * y.b + x.b * y.a, x.d * y.d)

\* 1 / x for x # 0: d (a - b sqrt 3) / (a^2 - 3 b^2).
QInv(x) == Q3(x.d * x.a, -(x.d * x.b), x.a * x.a - 3 * x.b * x.b)

QDiv(x, y) == QMul(x, QInv(y))

\* The integer square root of n when n is a perfect square, else -1.
ISqrt(n) == IF \E k \in 0..n : k * k = n THEN CHOOSE k \in 0..n : k * k = n ELSE -1

\* Whether the positive rational x (no sqrt 3 part) is the square of a rational.
QIsRatSquare(x) == x.b = 0 /\ x.a > 0 /\ ISqrt(x.a) >= 0 /\ ISqrt(x.d) >= 0

QRatSqrt(x) == Q3(ISqrt(x.a), 0, ISqrt(x.d))

\* -------------------------------------------------------------- real numbers

\* The real number x / sqrt(r): r = 1 for every element of Q(sqrt 3); a value
\* divided by a scale sqrt(q) keeps q under the root until a product with the same
\* scale cancels it.
Real(x, r) ==
    IF x = QZero THEN [x |-> QZero, r |-> QOne]
    ELSE IF QIsRatSquare(r) THEN [x |-> QDiv(x, QRatSqrt(r)), r |-> QOne]
    ELSE [x |-> x, r |-> r]

RInt(n) == [x |-> QInt(n), r |-> QOne]

RZero == RInt(0)

IsPlain(v) == v.r = QOne

RNeg(v) == [x |-> QNeg(v.x), r |-> v.r]

\* v + w and v - w of two plain reals.
RAdd(v, w) == [x |-> QAdd(v.x, w.x), r |-> QOne]

RSub(v, w) == [x |-> QSub(v.x, w.x), r |-> QOne]

\* v / sqrt(q) and v * sqrt(q) for a scale entry sqrt(q), q > 0.
RDivScale(v, q) == Real(v.x, QMul(v.r, q))

RMulScale(v, q) ==
    IF v.r = q THEN [x |-> v.x, r |-> QOne] ELSE Real(QMul(v.x, q), QMul(v.r, q))

\* ----------------------------------------------------------- complex numbers

Cx(re, im) == [re |-> re, im |-> im]

\* x * (1 + 0j) for a real x.
CxOfReal(x) == Cx(x, RZero)

conj(c) == Cx(c.re, RNeg(c.im))

\* c + 1j * y for a real y added to a coefficient whose imaginary part is zero.
CxAddImag(c, y) == Cx(c.re, IF c.im = RZero THEN y ELSE RAdd(c.im, y))

\* ------------------------------------------------------------ codec (1D)

\* The real parts and the imaginary parts of a vector of coefficients.
RealParts(z) == Tup([i \in 1..Len(z) |-> z[i].re])

ImagParts(z) == Tup([i \in 1..Len(z) |-> z[i].im])

\* unpack_rfft(z, size) with the number of imaginary parts kept for the
\* Nyquist coefficient as well: the slip the round trip must detect.
unpack_rfft_nyquist_imag(z, size) ==
    concatenate(RealParts(z), ImagParts(Slice(z, 1, size \div 2 + 1)))

\* unpack_rfft(z, size): the real parts of all coefficients, then the imaginary
\* parts of the coefficients 1..ncomplex, ncomplex = (size - 1) // 2.
unpack_rfft(z, size) ==
    concatenate(RealParts(z), ImagParts(Slice(z, 1, (size - 1) \div 2 + 1)))

\* The coefficients with the imaginary parts added to the coefficients
\* 0..ncomplex - 1 in place of 1..ncomplex.
PackedCoefficientsFromZero(z, fftsize, ncomplex) ==
    Tup([i \in 1..Len(Slice(z, 0, fftsize)) |->
       IF i <= ncomplex
       THEN CxAddImag(CxOfReal(z[i]), SliceFrom(z, fftsize)[i])
       ELSE CxOfReal(z[i])])

\* The coefficients 0..size // 2 that pack_rfft builds: the real parts
\* z[:fftsize] * (1 + 0j), with the imaginary parts z[fftsize:] added in place to
\* the coefficients 1..ncomplex.
PackedCoefficients(z, fftsize, ncomplex) ==
    Tup([i \in 1..Len(Slice(z, 0, fftsize)) |->
       IF 2 <= i /\ i <= ncomplex + 1
       THEN CxAddImag(CxOfReal(z[i]), SliceFrom(z, fftsize)[i - 1])
       ELSE CxOfReal(z[i])])

conjugates(z) == Tup([i \in 1..Len(z) |-> conj(z[i])])

\* The lines 111 to 115: without full_fft rfft; with it, rfft followed by the
\* flipped conjugates of its coefficients 1..ncomplex.
WithMirror(rfft_, ncomplex, full_fft) ==
    IF ~full_fft THEN rfft_
    ELSE concatenate(rfft_, flip(conjugates(Slice(rfft_, 1, ncomplex + 1))))

\* The same without the conjugation.
WithMirrorNoConj(rfft_, ncomplex, full_fft) ==
    IF ~full_fft THEN rfft_
    ELSE concatenate(rfft_, flip(Slice(rfft_, 1, ncomplex + 1)))

\* pack_rfft appending the flipped coefficients without conjugating them.
pack_rfft_no_conj(z, full_fft) ==
    WithMirrorNoConj(PackedCoefficients(z, Len(z) \div 2 + 1, (Len(z) - 1) \div 2),
                     (Len(z) - 1) \div 2, full_fft)

\* pack_rfft(z, full_fft): real parts z[:fftsize], imaginary parts z[fftsize:]
\* added in place to the coefficients 1..ncomplex; with full_fft the flipped
\* conjugates of those coefficients are appended.
pack_rfft(z, full_fft) ==
    WithMirror(PackedCoefficients(z, Len(z) \div 2 + 1, (Len(z) - 1) \div 2),
               (Len(z) - 1) \div 2, full_fft)

\* ------------------------------------------------------------ codec (2D)

\* A matrix is the sequence of its rows; z[..., c] of the source is Column(z, c).
Height(z) == Len(z)

Width(z) == Len(z[1])

Column(z, c) == Tup([r \in 1..Len(z) |-> z[r][c + 1]])

\* z[..., lo:hi]: the same column slice of every row.
Columns(z, lo, hi) == Tup([r \in 1..Len(z) |-> Slice(z[r], lo, hi)])

\* dispatch.concatenate(parts, axis=-1) of matrices with the same number of rows.
concatenate2(parts) ==
    LET RECURSIVE Cat(_, _)
        Cat(r, k) == IF k > Len(parts) THEN <<>> ELSE parts[k][r] \o Cat(r, k + 1)
    IN Tup([r \in 1..Len(parts[1]) |-> Cat(r, 1)])

\* v[..., None]: a vector as a matrix of one column.
AsColumn(v) == Tup([r \in 1..Len(v) |-> <<v[r]>>])

\* z.real and z.imag of a matrix of coefficients.
RealPartsOfMatrix(z) == Tup([r \in 1..Len(z) |-> RealParts(z[r])])

ImagPartsOfMatrix(z) == Tup([r \in 1..Len(z) |-> ImagParts(z[r])])

\* unpack_rfft of the rows 0..height // 2 of column c of z, as a column.
UnpackedColumn(z, c, height) ==
    AsColumn(unpack_rfft(Slice(Column(z, c), 0, height \div 2 + 1), height))

\* The parts unpack_rfft2 builds for every width: the first column through the
\* 1D codec, then the real and the imaginary parts of the columns 1..ncomplex,
\* ncomplex = (width - 1) // 2.
UnpackedParts(z, shape) ==
    <<UnpackedColumn(z, 0, shape[1]),
      RealPartsOfMatrix(Columns(z, 1, (shape[2] - 1) \div 2 + 1)),
      ImagPartsOfMatrix(Columns(z, 1, (shape[2] - 1) \div 2 + 1))>>

\* unpack_rfft2 reading the Nyquist column for every width: the parity test of
\* line 275 dropped.
unpack_rfft2_always_nyquist(z, shape) ==
    concatenate2(Append(UnpackedParts(z, shape),
                        UnpackedColumn(z, shape[2] \div 2, shape[1])))

\* unpack_rfft2(z, shape): the parts above and, for an even width, the Nyquist
\* column through the 1D codec, concatenated along the last axis.
unpack_rfft2(z, shape) ==
    concatenate2(IF shape[2] % 2 = 0
                 THEN Append(UnpackedParts(z, shape),
                             UnpackedColumn(z, shape[2] \div 2, shape[1]))
                 ELSE UnpackedParts(z, shape))

\* The packed matrix whose column 0 is first, whose columns 1..ncomplex are
\* z[..., 1:ncomplex + 1] + 1j * z[..., ncomplex + 1:2 * ncomplex + 1] and whose
\* column width // 2, for an even width, is last.
PackedColumns(z, first, last, width, ncomplex) ==
    Tup([r \in 1..Len(z) |-> Tup([c \in 1..(width \div 2 + 1) |->
       IF c = 1 THEN first[r]
       ELSE IF c <= ncomplex + 1 THEN Cx(z[r][c], z[r][ncomplex + c])
       ELSE last[r]])])

\* pack_rfft2(z): column 0 from pack_rfft(z[..., 0], full_fft=True), the
\* interior columns and, for an even width, column width // 2 from
\* pack_rfft(z[..., width - 1], full_fft=True).
pack_rfft2(z) ==
    PackedColumns(z, pack_rfft(Column(z, 0), TRUE),
                  IF Width(z) % 2 = 0 THEN pack_rfft(Column(z, Width(z) - 1), TRUE)
                  ELSE <<>>,
                  Width(z), (Width(z) - 1) \div 2)

\* ------------------------------------------------ the backend's Fourier transforms

\* Sizes whose twiddle factors lie in Q(sqrt 3)(i): the divisors of 12.
ExactSize(n) == n >= 1 /\ 12 % n = 0

\* cos and sin of m * 30 degrees.
Cos12(m) ==
    CASE m = 0 -> [a |-> 1, b |-> 0, d |-> 1]
      [] m \in {1, 11} -> [a |-> 0, b |-> 1, d |-> 2]
      [] m \in {2, 10} -> [a |-> 1, b |-> 0, d |-> 2]
      [] m \in {3, 9} -> [a |-> 0, b |-> 0, d |-> 1]
      [] m \in {4, 8} -> [a |-> -1, b |-> 0, d |-> 2]
      [] m \in {5, 7} -> [a |-> 0, b |-> -1, d |-> 2]
      [] m = 6 -> [a |-> -1, b |-> 0, d |-> 1]

Sin12(m) == Cos12((m + 9) % 12)

\* A complex number over Q(sqrt 3): the transforms' working type.
QC(re, im) == [re |-> re, im |-> im]

QCAdd(c, e) == QC(QAdd(c.re, e.re), QAdd(c.im, e.im))

QCMul(c, e) ==
    QC(QSub(QMul(c.re, e.re), QMul(c.im, e.im)),
       QAdd(QMul(c.re, e.im), QMul(c.im, e.re)))

\* exp(sign * 2 pi i m / n) for a size n that divides 12.
Twiddle(n, m, sign) ==
    QC(Cos12((12 \div n) * (m % n)), Sin12((12 + sign * (12 \div n) * (m % n)) % 12))

RECURSIVE QCSum(_, _)
QCSum(s, k) == IF k > Len(s) THEN QC(QZero, QZero) ELSE QCAdd(s[k], QCSum(s, k + 1))

\* The discrete Fourier transform of a complex vector c, with exp(sign 2 pi i jk/n),
\* at the frequencies 0..nout - 1.
DFT(c, nout, sign) ==
    LET n == Len(c)
    IN Tup([k \in 1..nout |->
          QCSum(Tup([j \in 1..n |-> QCMul(c[j], Twiddle(n, (j - 1) * (k - 1), sign))]),
                1)])

ToQC(c) == QC(c.re.x, c.im.x)

FromQC(c) == Cx([x |-> c.re, r |-> QOne], [x |-> c.im, r |-> QOne])

\* A real that is no element of Q(sqrt 3): what a transform of a coefficient that
\* kept a scale under its root yields (no call of the source reaches it).
Unrepresented == [x |-> QZero, r |-> QZero]

AllPlainReal(v) == \A i \in 1..Len(v) : IsPlain(v[i])

AllPlainCx(v) == \A i \in 1..Len(v) : IsPlain(v[i].re) /\ IsPlain(v[i].im)

\* The coefficients of a transform as complex numbers of real parts and
\* imaginary parts.
FromQCs(out) == Tup([k \in 1..Len(out) |-> FromQC(out[k])])

\* What a transform of values that kept a scale under their root yields.
UnrepresentedCx(n) == Tup([k \in 1..n |-> Cx(Unrepresented, Unrepresented)])

\* numpy.fft.rfft / torch.fft.rfft of a real vector: the coefficients 0..n // 2.
rfft(x) ==
    IF ~AllPlainReal(x) THEN UnrepresentedCx(Len(x) \div 2 + 1)
    ELSE FromQCs(DFT(Tup([j \in 1..Len(x) |-> QC(x[j].x, QZero)]),
                     Len(x) \div 2 + 1, -1))

\* out * norm, entry by entry.
Normalised(out, norm) ==
    Tup([k \in 1..Len(out) |-> QC(QMul(out[k].re, norm), QMul(out[k].im, norm))])

\* The full transform of a complex vector (along a column in two dimensions):
\* forward for sign = -1, and inverse, divided by the length, for sign = 1.
fft(c, sign) ==
    IF ~AllPlainCx(c) THEN UnrepresentedCx(Len(c))
    ELSE FromQCs(Normalised(DFT(Tup([j \in 1..Len(c) |-> ToQC(c[j])]), Len(c), sign),
                            IF sign < 0 THEN QOne ELSE [a |-> 1, b |-> 0, d |-> Len(c)]))

\* The first m entries of a vector, zero-padded: how the inverse transforms fit
\* their input to the length they consume.
FitLength(c, m) ==
    Tup([k \in 1..m |-> IF k <= Len(c) THEN c[k] ELSE Cx(RZero, RZero)])

\* Coefficient k - 1, k in 1..n, of the full Hermitian spectrum that the
\* coefficients f of indices 0..n // 2 stand for: the imaginary parts of the
\* zero-frequency and Nyquist coefficients are discarded.
Hermitian(f, n, k) ==
    IF k = 1 \/ (n % 2 = 0 /\ k = n \div 2 + 1) THEN QC(f[k].re.x, QZero)
    ELSE IF k <= n \div 2 + 1 THEN ToQC(f[k])
    ELSE QC(f[n + 2 - k].re.x, QNeg(f[n + 2 - k].im.x))

\* The real parts of out as real numbers.
RealSignal(out) == Tup([j \in 1..Len(out) |-> [x |-> out[j].re, r |-> QOne]])

\* irfft of coefficients f that already have the length n // 2 + 1.
IrfftFitted(f, n) ==
    IF ~AllPlainCx(f) THEN Tup([j \in 1..n |-> Unrepresented])
    ELSE RealSignal(Normalised(DFT(Tup([k \in 1..n |-> Hermitian(f, n, k)]), n, 1),
                              [a |-> 1, b |-> 0, d |-> n]))

\* numpy.fft.irfft(c, n): the real signal of length n whose coefficients 0..n // 2
\* are c.
irfft(c, n) == IrfftFitted(FitLength(c, n \div 2 + 1), n)

\* The first m rows of a matrix of coefficients, padded with rows of zeros.
FitRows(c, m) ==
    Tup([r \in 1..m |-> IF r <= Len(c) THEN c[r]
                        ELSE Tup([k \in 1..Len(c[1]) |-> Cx(RZero, RZero)])])

\* The transpose of a matrix given as the sequence of its rows.
Transposed(m) ==
    Tup([c \in 1..Len(m[1]) |-> Tup([r \in 1..Len(m) |-> m[r][c]])])

\* The full transform of every row of a matrix.
FftRows(m, sign) == Tup([r \in 1..Len(m) |-> fft(m[r], sign)])

\* rfft of every row of a real matrix.
RfftRows(x) == Tup([r \in 1..Len(x) |-> rfft(x[r])])

\* irfft of every row of a matrix of coefficients.
IrfftRows(c, n) == Tup([r \in 1..Len(c) |-> irfft(c[r], n)])

\* numpy.fft.rfft2: rfft of every row, then the full transform of every column.
rfft2(x) == Transposed(FftRows(Transposed(RfftRows(x)), -1))

\* numpy.fft.irfft2(c, (height, width)): the inverse full transform of every
\* column, then irfft of every row.
irfft2(c, shape) ==
    IrfftRows(Transposed(FftRows(Transposed(FitRows(c, shape[1])), 1)), shape[2])

\* ------------------------------------------------------- results and arrays

\* An absent optional argument.
None == <<>>

\* An absent size keyword: sizes are at least 1.
NoSize == 0

\* What a call yields: its return value, or the exception it raised.
Ok(v) == [err |-> "", val |-> v]

Raise(e) == [err |-> e, val |-> None]

IsErr(r) == r.err # ""

ErrExactlyOne1 == "ValueError: exactly one of cov and rfft_scale must be given"

ErrExactlyOne2 == "ValueError: exactly one of cov and rfft2_scale must be given"

ErrExclusiveKwargs == "InvalidArgumentCombination: exactly one of cov and rfft"

ErrBroadcast == "ValueError: operands could not be broadcast together"

ErrAssert == "AssertionError"

\* The covariance, rfft and scale arguments of the 1D functions carry their
\* number of axes: ndim = 1 is a vector (v its entries), ndim = 2 a batch of
\* vectors (v its rows).
Arr(ndim, v) == [ndim |-> ndim, v |-> v]

\* a.shape[-1].
LastDim(a) == IF a.ndim = 1 THEN Len(a.v) ELSE Len(a.v[1])

\* A scale entry, a non-negative real, is held as its square: sq = q stands for
\* sqrt(q), so that dispatch.sqrt and the products with sqrt2 are exact.
Sqrt(q) == [sq |-> q]

\* e * sqrt2 (sqrt2 = 1.4142135623730951, line 7) and e * 2 before the root.
TimesSqrt2(e) == [sq |-> QMul(e.sq, QInt(2))]

\* ------------------------------------------------------ scale evaluator (1D)

\* The decorator of evaluate_rfft_scale: exactly one of cov and rfft is given.
mutually_exclusive_kwargs(cov, rfft_, size) == (cov # None) # (rfft_ # None)

\* dispatch.sqrt(size * rfft / 2) of a vector of real parts.
SqrtHalfSizeOfVector(size, re) ==
    Tup([i \in 1..Len(re) |-> Sqrt(QMul(re[i].x, Q3(size, 0, 2)))])

\* dispatch.sqrt(size * rfft / 2), entry by entry.
SqrtHalfSize(size, rfft_) ==
    IF rfft_.ndim = 1 THEN Arr(1, SqrtHalfSizeOfVector(size, rfft_.v))
    ELSE Arr(2, Tup([k \in 1..Len(rfft_.v) |-> SqrtHalfSizeOfVector(size, rfft_.v[k])]))

\* dispatch[cov].fft.rfft(cov).real: the transform runs along the last axis.
RfftReal(cov) ==
    IF cov.ndim = 1 THEN Arr(1, RealParts(rfft(cov.v)))
    ELSE Arr(2, Tup([k \in 1..Len(cov.v) |-> RealParts(rfft(cov.v[k]))]))

\* scale[0] *= sqrt2: the first entry of a vector; of a batch, its first row.
RescaleFirst(scale) ==
    IF scale.ndim = 1
    THEN Arr(1, Tup([i \in 1..Len(scale.v) |->
                   IF i = 1 THEN TimesSqrt2(scale.v[i]) ELSE scale.v[i]]))
    ELSE Arr(2, Tup([k \in 1..Len(scale.v) |-> Tup([i \in 1..Len(scale.v[k]) |->
                   IF k = 1 THEN TimesSqrt2(scale.v[k][i]) ELSE scale.v[k][i]])]))

\* scale[..., -1] *= sqrt2: the last entry along the last axis.
RescaleLastOfVector(v) ==
    Tup([i \in 1..Len(v) |-> IF i = Len(v) THEN TimesSqrt2(v[i]) ELSE v[i]])

RescaleLast(scale) ==
    IF scale.ndim = 1 THEN Arr(1, RescaleLastOfVector(scale.v))
    ELSE Arr(2, Tup([k \in 1..Len(scale.v) |-> RescaleLastOfVector(scale.v[k])]))

\* The rescaling of the last entry without the test of the parity of the size.
RescaleNyquistAlways(scale, size) == RescaleLast(scale)

\* if size % 2 == 0: scale[..., -1] *= sqrt2.
RescaleNyquist(scale, size) == IF size % 2 = 0 THEN RescaleLast(scale) ELSE scale

\* The lines 43 to 49: the scale of the real parts rfft of the coefficients.
ScaleOfRfft(rfft_, size) ==
    RescaleNyquist(RescaleFirst(SqrtHalfSize(size, rfft_)), size)

\* evaluate_rfft_scale(cov=..., rfft=..., size=...).
evaluate_rfft_scale(cov, rfft_, size) ==
    IF ~mutually_exclusive_kwargs(cov, rfft_, size) THEN Raise(ErrExclusiveKwargs)
    ELSE IF rfft_ = None THEN Ok(ScaleOfRfft(RfftReal(cov), LastDim(cov)))
    ELSE Ok(ScaleOfRfft(rfft_, size))

\* _get_rfft_scale without the check of its arguments when a scale is given.
_get_rfft_scale_unchecked(cov, rfft_scale) ==
    IF rfft_scale # None THEN Ok(rfft_scale)
    ELSE IF cov = None THEN Raise(ErrExactlyOne1)
    ELSE evaluate_rfft_scale(cov, None, NoSize)

\* _get_rfft_scale(cov, rfft_scale).
_get_rfft_scale(cov, rfft_scale) ==
    IF (cov = None) = (rfft_scale = None) THEN Raise(ErrExactlyOne1)
    ELSE IF rfft_scale # None THEN Ok(rfft_scale)
    ELSE evaluate_rfft_scale(cov, None, NoSize)

\* ------------------------------------------------------ scale evaluator (2D)

\* size * rfft2(cov).real / 2, entry by entry.
HalfSizeTimesReal(size, c) ==
    Tup([r \in 1..Len(c) |-> Tup([k \in 1..Len(c[r]) |->
       QMul(c[r][k].re.x, Q3(size, 0, 2))])])

\* The doubling without its condition.
DoubledAlways(rfft2_scale, cond, row, col) ==
    [rfft2_scale EXCEPT ![row + 1][col + 1] = QMul(@, QInt(2))]

\* if cond: rfft2_scale[..., row, col] *= 2.
Doubled(rfft2_scale, cond, row, col) ==
    IF cond THEN [rfft2_scale EXCEPT ![row + 1][col + 1] = QMul(@, QInt(2))]
    ELSE rfft2_scale

\* dispatch.sqrt(rfft2_scale), entry by entry.
SqrtMatrix(m) == Tup([r \in 1..Len(m) |-> Tup([k \in 1..Len(m[r]) |-> Sqrt(m[r][k])])])

\* The lines 220 to 248 for a covariance of the given height and width:
\* size * rfft2(cov).real / 2, doubled at (0, 0), at (0, width // 2) for an even
\* width, at (height // 2, 0) for an even height and at (height // 2, width // 2)
\* when both are even; then the square root.
Rfft2Scale(cov, height, width) ==
    SqrtMatrix(
      Doubled(
        Doubled(
          Doubled(
            Doubled(HalfSizeTimesReal(width * height, rfft2(cov)), TRUE, 0, 0),
            width % 2 = 0, 0, width \div 2),
          height % 2 = 0, height \div 2, 0),
        height % 2 = 0 /\ width % 2 = 0, height \div 2, width \div 2))

\* evaluate_rfft2_scale(cov).
evaluate_rfft2_scale(cov) == Rfft2Scale(cov, Height(cov), Width(cov))

\* _get_rfft2_scale(cov, rfft2_scale).
_get_rfft2_scale(cov, rfft2_scale) ==
    IF (cov = None) = (rfft2_scale = None) THEN Raise(ErrExactlyOne2)
    ELSE IF rfft2_scale # None THEN Ok(rfft2_scale)
    ELSE Ok(evaluate_rfft2_scale(cov))

\* ------------------------------------------------------------- broadcasting

\* The length two axes of lengths n and m broadcast to, or -1 when they do not.
BroadcastLen(n, m) ==
    IF n = m THEN n ELSE IF n = 1 THEN m ELSE IF m = 1 THEN n ELSE -1

\* Entry i of a vector broadcast from length 1.
Pick(v, i) == IF Len(v) = 1 THEN v[1] ELSE v[i]

CxMulScale(c, e) == Cx(RMulScale(c.re, e.sq), RMulScale(c.im, e.sq))

CxDivScale(c, e) == Cx(RDivScale(c.re, e.sq), RDivScale(c.im, e.sq))

RAddU(v, w) == IF IsPlain(v) /\ IsPlain(w) THEN RAdd(v, w) ELSE Unrepresented

VecAdd(v, w) == Tup([i \in 1..Len(v) |-> RAddU(v[i], w[i])])

VecSub(v, w) == Tup([i \in 1..Len(v) |-> RSub(v[i], w[i])])

MatAdd(a, b) == Tup([r \in 1..Len(a) |-> VecAdd(a[r], b[r])])

MatSub(a, b) == Tup([r \in 1..Len(a) |-> VecSub(a[r], b[r])])

\* ------------------------------------------------------------ transforms (1D)

\* c * e for op = "*" and c / e for op = "/", of a coefficient c and a scale
\* entry e.
Scaled(op, c, e) == IF op = "*" THEN CxMulScale(c, e) ELSE CxDivScale(c, e)

\* c * s or c / s of a vector of coefficients and a vector of scales under
\* broadcasting, or the broadcast error.
Broadcast1(op, c, s) ==
    IF BroadcastLen(Len(c), Len(s)) < 0 THEN Raise(ErrBroadcast)
    ELSE Ok(Tup([k \in 1..BroadcastLen(Len(c), Len(s)) |->
               Scaled(op, Pick(c, k), Pick(s, k))]))

\* dispatch[rfft].fft.irfft(rfft, n) + loc of the scaled coefficients.
IrfftPlusLoc(rfft_, n, loc) ==
    IF IsErr(rfft_) THEN rfft_ ELSE Ok(VecAdd(irfft(rfft_.val, n), loc))

\* The lines 133 and 134 once the scale s is resolved.
TransformIrfftWith(z, loc, s) ==
    IF IsErr(s) THEN s
    ELSE IrfftPlusLoc(Broadcast1("*", pack_rfft(z, FALSE), s.val.v), Len(z), loc)

\* transform_irfft(z, loc, cov=..., rfft_scale=...) of vectors.
transform_irfft(z, loc, cov, rfft_scale) ==
    TransformIrfftWith(z, loc, _get_rfft_scale(cov, rfft_scale))

\* unpack_rfft(rfft, size) of the scaled coefficients.
UnpackScaled(rfft_, size) ==
    IF IsErr(rfft_) THEN rfft_ ELSE Ok(unpack_rfft(rfft_.val, size))

\* The line 152 once the scale s is resolved.
TransformRfftWith(y, loc, s) ==
    IF IsErr(s) THEN s
    ELSE UnpackScaled(Broadcast1("/", rfft(VecSub(y, loc)), s.val.v), Len(y))

\* transform_rfft(y, loc, cov=..., rfft_scale=...) of vectors.
transform_rfft(y, loc, cov, rfft_scale) ==
    TransformRfftWith(y, loc, _get_rfft_scale(cov, rfft_scale))

\* ------------------------------------------------------------ transforms (2D)

\* The elementwise combination of a coefficient matrix and a scale matrix under
\* broadcasting, or the broadcast error.
Broadcast2(op, c, s) ==
    LET nr == BroadcastLen(Len(c), Len(s))
        nc == BroadcastLen(Len(c[1]), Len(s[1]))
    IN IF nr < 0 \/ nc < 0 THEN Raise(ErrBroadcast)
       ELSE Ok(Tup([r \in 1..nr |-> Tup([k \in 1..nc |->
                  Scaled(op, Pick(Pick(c, r), k), Pick(Pick(s, r), k))])]))

\* dispatch[rfft2].fft.irfft2(rfft2, z.shape[-2:]) + loc of the scaled coefficients.
Irfft2PlusLoc(rfft2_, shape, loc) ==
    IF IsErr(rfft2_) THEN rfft2_ ELSE Ok(MatAdd(irfft2(rfft2_.val, shape), loc))

\* The lines 323 and 324 for the packed coefficients and the resolved scale s.
TransformIrfft2With(z, loc, packed, s) ==
    IF IsErr(s) THEN s
    ELSE Irfft2PlusLoc(Broadcast2("*", packed, s.val), <<Height(z), Width(z)>>, loc)

\* transform_irfft2(z, loc, cov=..., rfft2_scale=...): the coefficients are
\* packed before the scale is resolved (line 323).
transform_irfft2(z, loc, cov, rfft2_scale) ==
    TransformIrfft2With(z, loc, pack_rfft2(z), _get_rfft2_scale(cov, rfft2_scale))

ErrConcatenate == "ValueError: all the input array dimensions must match"

\* unpack_rfft2(rfft2, shape) of the scaled coefficients: parts with different
\* numbers of rows do not concatenate.
Unpack2Scaled(rfft2_, shape) ==
    IF IsErr(rfft2_) THEN rfft2_
    ELSE IF Len(rfft2_.val) # shape[1] THEN Raise(ErrConcatenate)
    ELSE Ok(unpack_rfft2(rfft2_.val, shape))

\* The line 343 once the scale s is resolved.
TransformRfft2With(y, loc, s) ==
    IF IsErr(s) THEN s
    ELSE Unpack2Scaled(Broadcast2("/", rfft2(MatSub(y, loc)), s.val),
                       <<Height(y), Width(y)>>)

\* transform_rfft2(y, loc, cov=..., rfft2_scale=...).
transform_rfft2(y, loc, cov, rfft2_scale) ==
    TransformRfft2With(y, loc, _get_rfft2_scale(cov, rfft2_scale))

\* ---------------------------------------------------------------- Jacobians

\* A sum of logarithms is held as the bag of the scale entries whose logarithms
\* it adds.  dispatch.log(v).sum(axis=-1) of a vector of scale entries:
RECURSIVE LogSum(_)
LogSum(v) == IF v = <<>> THEN EmptyBag ELSE SetToBag({Head(v)}) (+) LogSum(Tail(v))

\* dispatch.log(a).sum(axis=-1): one sum for a vector (ndim 0), one sum per row
\* for a batch (ndim 1).
LogSumLast(a) ==
    IF a.ndim = 1 THEN Arr(0, LogSum(a.v))
    ELSE Arr(1, Tup([k \in 1..Len(a.v) |-> LogSum(a.v[k])]))

\* a[lo:hi]: a slice of the first axis, the entries of a vector and the rows of
\* a batch.
SliceFirst(a, lo, hi) == Arr(a.ndim, Slice(a.v, lo, hi))

\* The value - sum(log e for e in logs) - log2 * nlog2 + size * math.log(size) / 2
\* (log2 = 0.6931471805599453, line 8).
LogAbsDet(logs, nlog2, size) == [logs |-> logs, log2 |-> nlog2, size |-> size]

\* - first - second - log2 * nlog2 + size * math.log(size) / 2 of the two sums of
\* logarithms first and second under broadcasting, or the broadcast error.
SumOfTerms(first, second, nlog2, size) ==
    IF first.ndim = 0 /\ second.ndim = 0
    THEN Ok(Arr(0, LogAbsDet(first.v (+) second.v, nlog2, size)))
    ELSE IF BroadcastLen(Len(first.v), Len(second.v)) < 0 THEN Raise(ErrBroadcast)
    ELSE Ok(Arr(1, Tup([k \in 1..BroadcastLen(Len(first.v), Len(second.v)) |->
               LogAbsDet(Pick(first.v, k) (+) Pick(second.v, k), nlog2, size)])))

\* imagidx taken as the number of coefficients, size // 2 + 1.
imagidx_all_coefficients(size) == size \div 2 + 1

\* imagidx = (size + 1) // 2.
imagidx(size) == (size + 1) \div 2

\* The lines 192 to 195 once the scale s is resolved.
JacobianWith(size, s) ==
    IF IsErr(s) THEN s
    ELSE IF LastDim(s.val) # size \div 2 + 1 THEN Raise(ErrAssert)
    ELSE SumOfTerms(LogSumLast(s.val), LogSumLast(SliceFirst(s.val, 1, imagidx(size))),
                    (size - 1) \div 2, size)

\* evaluate_rfft_log_abs_det_jacobian(size, cov=..., rfft_scale=...).
evaluate_rfft_log_abs_det_jacobian(size, cov, rfft_scale) ==
    JacobianWith(size, _get_rfft_scale(cov, rfft_scale))

\* dispatch.log(rfft2_scale[..., lo:hi, col]).sum(axis=-1).
ColumnLogSum(s, lo, hi, col) == LogSum(Slice(Column(s, col), lo, hi))

\* The sum of a sequence of sums of logarithms.
RECURSIVE SumOfParts(_)
SumOfParts(parts) ==
    IF parts = <<>> THEN EmptyBag ELSE Head(parts) (+) SumOfParts(Tail(parts))

\* dispatch.log(rfft2_scale[..., lo:hi]).sum(axis=(-2, -1)).
BlockLogSum(s, lo, hi) == SumOfParts(Tup([r \in 1..Len(s) |-> LogSum(Slice(s[r], lo, hi))]))

\* 2 * t for a sum of logarithms t.
Twice(t) == t (+) t

\* The parts of every width: the real and the imaginary parts of the first
\* column, and the complex coefficients of the columns 1..ncomplex_horizontal.
JacobianParts(s, height, width) ==
    <<ColumnLogSum(s, 0, height \div 2 + 1, 0),
      ColumnLogSum(s, 1, (height - 1) \div 2 + 1, 0),
      Twice(BlockLogSum(s, 1, 1 + (width - 1) \div 2))>>

\* The parts an even width adds: the real and the imaginary parts of the last
\* column.
NyquistParts(s, height, width) ==
    <<ColumnLogSum(s, 0, height \div 2 + 1, width \div 2),
      ColumnLogSum(s, 1, (height - 1) \div 2 + 1, width \div 2)>>

\* nterms without the adjustment for an even height and an even width.
nterms_unadjusted(height, width) == (width * height - 1) \div 2

\* nterms = (size - 1) // 2, less 1 when the height and the width are even.
nterms(height, width) ==
    IF height % 2 = 0 /\ width % 2 = 0 THEN (width * height - 1) \div 2 - 1
    ELSE (width * height - 1) \div 2

\* The lines 362 to 385 for the resolved scale s of the given height.
Jacobian2Of(s, height, width) ==
    IF Width(s) # width \div 2 + 1 THEN Raise(ErrAssert)
    ELSE Ok(Arr(0, LogAbsDet(
           SumOfParts(IF width % 2 = 0
                      THEN JacobianParts(s, height, width) \o NyquistParts(s, height, width)
                      ELSE JacobianParts(s, height, width)),
           nterms(height, width), width * height)))

Jacobian2With(width, s) ==
    IF IsErr(s) THEN s ELSE Jacobian2Of(s.val, Height(s.val), width)

\* evaluate_rfft2_log_abs_det_jacobian(width, cov=..., rfft2_scale=...).
evaluate_rfft2_log_abs_det_jacobian(width, cov, rfft2_scale) ==
    Jacobian2With(width, _get_rfft2_scale(cov, rfft2_scale))

\* ---------------------------------------------------------- log probability

\* The sum of the squares y * y of a vector of reals x / sqrt(r): x * x / r.
RECURSIVE SumOfSquares(_)
SumOfSquares(y) ==
    IF y = <<>> THEN QZero
    ELSE QAdd(QDiv(QMul(Head(y).x, Head(y).x), Head(y).r), SumOfSquares(Tail(y)))

\* log_prob_stdnorm(y).sum(axis=-1): - (n * log2pi + sum(y * y)) / 2 for the n
\* entries of y (log2pi = 1.8378770664093453, line 9).
log_prob_stdnorm_sum(y) == [log2pi |-> Len(y), squares |-> SumOfSquares(y)]

\* The rows of a matrix, one after the other.
RECURSIVE Flattened(_)
Flattened(m) == IF m = <<>> THEN <<>> ELSE Head(m) \o Flattened(Tail(m))

\* log_prob_stdnorm(rfft).sum(axis=-1) + the Jacobian, or the exception either
\* operand raised; the left operand is evaluated first.
LogProbSum(rfft_, jacobian) ==
    IF IsErr(rfft_) THEN rfft_
    ELSE IF IsErr(jacobian) THEN jacobian
    ELSE Ok([stdnorm |-> log_prob_stdnorm_sum(rfft_.val), jacobian |-> jacobian.val.v])

\* unpack_rfft(rfft(y - loc) / rfft_scale, size) for a batch of scales: the
\* coefficients of the vector y - loc broadcast against every row of the batch.
TransformRfftRows(y, loc, rows) ==
    Tup([k \in 1..Len(rows) |-> TransformRfftWith(y, loc, Ok(Arr(1, rows[k])))])

\* log_prob_stdnorm(rfft).sum(axis=-1) + the Jacobian for the rows of a batch:
\* the two vectors broadcast against each other.
LogProbSumRows(rows, jacobian) ==
    IF \E k \in 1..Len(rows) : IsErr(rows[k]) THEN Raise(ErrBroadcast)
    ELSE IF IsErr(jacobian) THEN jacobian
    ELSE IF BroadcastLen(Len(rows), Len(jacobian.val.v)) < 0 THEN Raise(ErrBroadcast)
    ELSE Ok(Arr(1, Tup([k \in 1..BroadcastLen(Len(rows), Len(jacobian.val.v)) |->
               [stdnorm |-> log_prob_stdnorm_sum(Pick(rows, k).val),
                jacobian |-> Pick(jacobian.val.v, k)]])))

\* The lines 172 to 174 once the scale s is resolved, for a vector y and a
\* scale that is a vector or a batch of vectors.
LogProbRfftWith(y, loc, s) ==
    IF IsErr(s) THEN s
    ELSE IF s.val.ndim = 2
    THEN LogProbSumRows(TransformRfftRows(y, loc, s.val.v),
                        evaluate_rfft_log_abs_det_jacobian(Len(y), None, s.val))
    ELSE LogProbSum(transform_rfft(y, loc, None, s.val),
                    evaluate_rfft_log_abs_det_jacobian(Len(y), None, s.val))

\* evaluate_log_prob_rfft(y, loc, cov=..., rfft_scale=...) of vectors.
evaluate_log_prob_rfft(y, loc, cov, rfft_scale) ==
    LogProbRfftWith(y, loc, _get_rfft_scale(cov, rfft_scale))

\* log_prob_stdnorm(rfft2).sum(axis=(-2, -1)) + the Jacobian.
LogProbSum2(rfft2_, jacobian) ==
    IF IsErr(rfft2_) THEN rfft2_
    ELSE IF IsErr(jacobian) THEN jacobian
    ELSE Ok([stdnorm |-> log_prob_stdnorm_sum(Flattened(rfft2_.val)),
             jacobian |-> jacobian.val.v])

\* The lines 405 to 407 once the scale s is resolved.
LogProbRfft2With(y, loc, s) ==
    IF IsErr(s) THEN s
    ELSE LogProbSum2(transform_rfft2(y, loc, None, s.val),
                     evaluate_rfft2_log_abs_det_jacobian(Width(y), None, s.val))

\* evaluate_log_prob_rfft2(y, loc, cov=..., rfft2_scale=...).
evaluate_log_prob_rfft2(y, loc, cov, rfft2_scale) ==
    LogProbRfft2With(y, loc, _get_rfft2_scale(cov, rfft2_scale))

\* --------------------------------------------------------------- inputs

Vals == (-MaxVal)..MaxVal

\* The real vectors of length n with entries in Vals.
RealVectors(n) == {[i \in 1..n |-> RInt(f[i])] : f \in [1..n -> Vals]}

\* The sizes up to a bound whose transforms are exact.
ExactSizes(max) == {n \in 1..max : ExactSize(n)}

\* The real vectors of length n with distinct entries (entry i holds i) but for
\* one entry, raised by a value of Vals.
Signals(n) ==
    {[i \in 1..n |-> RInt(i + (IF i = i0 THEN v ELSE 0))] : i0 \in 1..n, v \in Vals}

\* The real height x width matrices for the transforms: the matrix of distinct
\* entries (entry (r, c) holds its row-major position) and the matrices that
\* differ from it by 1 in one entry; the transforms are linear, so these decide
\* them on every matrix.
Fields(height, width) ==
    {[r \in 1..height |-> [c \in 1..width |->
        RInt((r - 1) * width + c + (IF r = r0 /\ c = c0 THEN 1 ELSE 0))]] :
     r0 \in 0..height, c0 \in 1..width}

\* Means: the zero vector and a vector of distinct entries.
Locs(n) == {[i \in 1..n |-> RInt(0)], [i \in 1..n |-> RInt(2 * i)]}

Locs2(height, width) ==
    {[r \in 1..height |-> [c \in 1..width |-> RInt(0)]],
     [r \in 1..height |-> [c \in 1..width |-> RInt(r + 2 * c)]]}

\* First rows of positive definite circulant covariance matrices: c0 on the
\* diagonal, c1 between neighbours, with c0 > 2 * c1.
Covs(n) ==
    {[i \in 1..n |-> RInt(IF i = 1 THEN c0 ELSE IF i = 2 \/ i = n THEN c1 ELSE 0)] :
     c0 \in {2 * MaxVal + 2, 2 * MaxVal + 3}, c1 \in 0..MaxVal}

\* Covariance blocks of a stationary kernel on the periodic grid: c0 at the
\* origin, c1 between vertical and c2 between horizontal neighbours, with
\* c0 > 2 * c1 + 2 * c2.
Covs2(height, width) ==
    {[r \in 1..height |-> [c \in 1..width |->
        RInt(IF r = 1 /\ c = 1 THEN c0
             ELSE IF c = 1 /\ (r = 2 \/ r = height) THEN c1
             ELSE IF r = 1 /\ (c = 2 \/ c = width) THEN c2
             ELSE 0)]] :
     c0 \in {6}, c1 \in 0..1, c2 \in 0..1}

\* The squares of the entries of the enumerated precomputed scales.
ScaleSquares == {1, 4, 9}

\* Precomputed 1D scales of m entries.
Scales(m) == {[i \in 1..m |-> Sqrt(QInt(f[i]))] : f \in [1..m -> ScaleSquares]}

\* Precomputed 2D scales of the given shape: all entries 1 but one, and the
\* scale whose entry (r, c) depends on the distance of r from row 0 around the
\* cycle of rows, which is the same for the rows k and height - k.
Scales2(height, ncols) ==
    {[r \in 1..height |-> [c \in 1..ncols |->
        Sqrt(QInt(IF r = r0 /\ c = c0 THEN q ELSE 1))]] :
     r0 \in 1..height, c0 \in 1..ncols, q \in ScaleSquares \ {1}}
    \cup {[r \in 1..height |-> [c \in 1..ncols |->
        Sqrt(QInt(1 + Min(r - 1, height + 1 - r) + height * (c - 1)))]]}

\* The real height x width matrices whose entries are all distinct (entry (r, c)
\* holds its row-major position) but for one entry, raised by a value of Vals.
RealMatrices(height, width) ==
    {[r \in 1..height |-> [c \in 1..width |->
        RInt((r - 1) * width + c + (IF r = r0 /\ c = c0 THEN v ELSE 0))]] :
     r0 \in 1..height, c0 \in 1..width, v \in Vals}

Init ==
    /\ pc = "idle"
    /\ arg = [fn |-> "none"]
    /\ mid = None
    /\ res = None

\* The caller is back at rest after a call returned or raised.
Return ==
    /\ pc = "done"
    /\ pc' = "idle"
    /\ arg' = [fn |-> "none"]
    /\ mid' = None
    /\ res' = None

\* --------------------------------------------- round trip of the 1D codec

CallPack ==
    /\ pc = "idle"
    /\ \E n \in 1..MaxSize : \E z \in RealVectors(n) :
         /\ arg' = [fn |-> "pack_rfft", z |-> z, size |-> n]
         /\ mid' = pack_rfft(z, FALSE)
    /\ pc' = "packed"
    /\ res' = None

CallUnpack ==
    /\ pc = "packed"
    /\ res' = unpack_rfft(mid, arg.size)
    /\ pc' = "done"
    /\ UNCHANGED <<arg, mid>>

NextCodec == CallPack \/ CallUnpack \/ Return

SpecCodec == Init /\ [][NextCodec]_vars

\* C1: for every size n >= 1 and every real vector z of length n,
\* unpack_rfft(pack_rfft(z), n) has length n and equals z element by element.
C1_RoundTrip1D ==
    pc = "done" =>
        /\ Len(res) = arg.size
        /\ \A i \in 1..arg.size : res[i] = arg.z[i]

\* A round trip of an even size with a Nyquist coefficient and of an odd size
\* with a strictly complex coefficient has completed on a vector of distinct
\* entries.
C1_Witness ==
    /\ pc = "done"
    /\ arg.size = 4
    /\ arg.z[1] # arg.z[4]
    /\ arg.z[2] # arg.z[4]
    /\ res = arg.z

\* --------------------------------------------- round trip of the 2D codec

CallPack2 ==
    /\ pc = "idle"
    /\ \E height \in 1..MaxDim, width \in 1..MaxDim :
         \E z \in RealMatrices(height, width) :
           /\ arg' = [fn |-> "pack_rfft2", z |-> z, shape |-> <<height, width>>]
           /\ mid' = pack_rfft2(z)
    /\ pc' = "packed"
    /\ res' = None

CallUnpack2 ==
    /\ pc = "packed"
    /\ res' = unpack_rfft2(mid, arg.shape)
    /\ pc' = "done"
    /\ UNCHANGED <<arg, mid>>

NextCodec2 == CallPack2 \/ CallUnpack2 \/ Return

SpecCodec2 == Init /\ [][NextCodec2]_vars

\* Whether m is a matrix of the given number of rows and columns.
HasShape(m, height, width) ==
    Len(m) = height /\ \A r \in 1..height : Len(m[r]) = width

\* C2: for every shape (height, width) and real height x width matrix z,
\* pack_rfft2(z) has shape height x (width // 2 + 1), and
\* unpack_rfft2(pack_rfft2(z), (height, width)) has shape height x width and
\* equals z element by element.
C2_RoundTrip2D ==
    /\ pc \in {"packed", "done"} =>
         HasShape(mid, arg.shape[1], arg.shape[2] \div 2 + 1)
    /\ pc = "done" =>
         /\ HasShape(res, arg.shape[1], arg.shape[2])
         /\ \A r \in 1..arg.shape[1] : \A c \in 1..arg.shape[2] :
              res[r][c] = arg.z[r][c]

\* Round trips have completed in a shape with mirrored rows and a Nyquist column.
C2_Witness ==
    /\ pc = "done"
    /\ arg.shape = <<3, 2>>
    /\ res = arg.z
    /\ arg.z[3][2] # arg.z[2][2]


\* --------------------------------------------- round trip of the transforms

CallTransformRfft ==
    /\ pc = "idle"
    /\ \E n \in ExactSizes(MaxSize) :
         \E y \in Signals(n), loc \in Locs(n),
            s \in {[cov |-> Arr(1, c), rfft_scale |-> None] : c \in Covs(n)}
                  \cup {[cov |-> None, rfft_scale |-> Arr(1, e)] :
                        e \in Scales(n \div 2 + 1)} :
           /\ arg' = [fn |-> "transform_rfft", y |-> y, loc |-> loc,
                      cov |-> s.cov, scale |-> s.rfft_scale]
           /\ mid' = transform_rfft(y, loc, s.cov, s.rfft_scale)
    /\ pc' = "transformed"
    /\ res' = None

CallTransformIrfft ==
    /\ pc = "transformed"
    /\ arg.fn = "transform_rfft"
    /\ ~IsErr(mid)
    /\ res' = transform_irfft(mid.val, arg.loc, arg.cov, arg.scale)
    /\ pc' = "done"
    /\ UNCHANGED <<arg, mid>>

CallTransformRfft2 ==
    /\ pc = "idle"
    /\ \E height \in ExactSizes(MaxDim), width \in ExactSizes(MaxDim) :
         \E y \in Fields(height, width), loc \in Locs2(height, width),
            s \in {[cov |-> c, rfft2_scale |-> None] : c \in Covs2(height, width)}
                  \cup {[cov |-> None, rfft2_scale |-> e] :
                        e \in Scales2(height, width \div 2 + 1)} :
           /\ arg' = [fn |-> "transform_rfft2", y |-> y, loc |-> loc,
                      cov |-> s.cov, scale |-> s.rfft2_scale]
           /\ mid' = transform_rfft2(y, loc, s.cov, s.rfft2_scale)
    /\ pc' = "transformed"
    /\ res' = None

CallTransformIrfft2 ==
    /\ pc = "transformed"
    /\ arg.fn = "transform_rfft2"
    /\ ~IsErr(mid)
    /\ res' = transform_irfft2(mid.val, arg.loc, arg.cov, arg.scale)
    /\ pc' = "done"
    /\ UNCHANGED <<arg, mid>>

NextTransform ==
    \/ CallTransformRfft
    \/ CallTransformIrfft
    \/ CallTransformRfft2
    \/ CallTransformIrfft2
    \/ Return

SpecTransform == Init /\ [][NextTransform]_vars

\* Whether column c (0-based) of the scale s takes the same value in the rows k
\* and height - k, the rows of a pair of conjugate coefficients.
MirrorSymmetric(s, c) ==
    \A k \in 1..(Len(s) - 1) : s[k + 1][c + 1] = s[Len(s) - k + 1][c + 1]

\* The scale of a 2D call is one a covariance can produce in its first and
\* Nyquist columns.
ScaleOfRealSignal(s, width) ==
    /\ MirrorSymmetric(s, 0)
    /\ width % 2 = 0 => MirrorSymmetric(s, width \div 2)

\* C3 as stated: transform_irfft(transform_rfft(y, loc, S), loc, S) = y and
\* transform_irfft2(transform_rfft2(y, loc, S), loc, S) = y for every scale S
\* with no zero entry, a covariance or a precomputed scale.
C3_InverseAnyScale ==
    pc = "done" => ~IsErr(res) /\ res.val = arg.y

\* C3, amended: the 1D transforms are inverses for every scale with no zero
\* entry; the 2D transforms are inverses for every covariance and for every
\* precomputed scale whose first column and, for an even width, Nyquist column
\* take the same value in the rows k and height - k.
C3_InverseTransforms ==
    /\ pc = "done" /\ arg.fn = "transform_rfft" => ~IsErr(res) /\ res.val = arg.y
    /\ pc = "done" /\ arg.fn = "transform_rfft2"
         /\ (arg.scale # None => ScaleOfRealSignal(arg.scale, Width(arg.y)))
         => ~IsErr(res) /\ res.val = arg.y
    /\ pc = "transformed" /\ arg.fn = "transform_rfft2" /\ arg.cov # None
         => ScaleOfRealSignal(evaluate_rfft2_scale(arg.cov), Width(arg.y))

\* A 2D round trip has completed under a covariance in a shape with conjugate
\* rows, and under a precomputed scale that is not constant.
C3_Witness ==
    /\ pc = "done"
    /\ arg.fn = "transform_rfft2"
    /\ Height(arg.y) = 3
    /\ Width(arg.y) = 2
    /\ arg.cov # None
    /\ arg.cov[2][1] # RZero
    /\ arg.loc[1][1] # RZero
    /\ res.val = arg.y


\* ------------------------------------------------------ the steps of a call

\* A step of a call: the function or the operation that runs and, for an
\* in-place operation (+=, *=, an assignment to a slice), the storage it writes.
\* The array an argument names lives in the storage of the argument's name
\* ("cov", "rfft", "z"); an array constructed in the call lives in "local".
Event(step, on) == [step |-> step, on |-> on]

\* A slice of an array and its real part share its storage.
View(storage) == storage

\* An array an operation works on in place keeps its storage.
ConstructedInPlace(storage) == storage

\* The result of arithmetic, of a square root and of a Fourier transform is a
\* new array.
Constructed(storage) == "local"

\* An exception leaves the call.
Raised == Event("raise", "")

\* The steps a and then, unless a raised, the steps b.
Then(a, b) == IF a # <<>> /\ a[Len(a)] = Raised THEN a ELSE a \o b

\* pack_rfft, lines 108 and 110: rfft = z[..., :fftsize] * (1 + 0j), then
\* rfft[..., 1:ncomplex + 1] += ...; z names the storage of the argument.
StepsOfPack(z) == <<Event("pack_rfft", ""), Event("+=", Constructed(View(z)))>>

\* pack_rfft2, lines 295 to 305: rfft2 is constructed empty and assigned the
\* packed first column, the complex columns and, for an even width, the packed
\* last column.
StepsOfPack2(z, width) ==
    <<Event("pack_rfft2", "")>> \o StepsOfPack(View(z))
      \o <<Event("=", "local"), Event("=", "local")>>
      \o (IF width % 2 = 0 THEN StepsOfPack(View(z)) \o <<Event("=", "local")>> ELSE <<>>)

\* The lines 45 to 48: scale[0] *= sqrt2 and, for an even size,
\* scale[..., -1] *= sqrt2.
ScaleWrites(scale, size) ==
    <<Event("*=", scale)>> \o (IF size % 2 = 0 THEN <<Event("*=", scale)>> ELSE <<>>)

\* evaluate_rfft_scale: rfft is the argument or the real part of the transform
\* of cov (line 42), and scale = dispatch.sqrt(size * rfft / 2) (line 43).
StepsOfScale(cov, rfft_, size) ==
    <<Event("evaluate_rfft_scale", "")>>
      \o (IF ~mutually_exclusive_kwargs(cov, rfft_, size) THEN <<Raised>>
          ELSE ScaleWrites(
                 Constructed(IF rfft_ = None THEN View(Constructed("cov")) ELSE "rfft"),
                 IF rfft_ = None THEN LastDim(cov) ELSE size))

\* evaluate_rfft2_scale: rfft2_scale = size * rfft2(cov).real / 2 (line 220) is
\* doubled in place at up to four positions (lines 232 to 246).
StepsOfScale2(cov) ==
    <<Event("evaluate_rfft2_scale", ""), Event("*=", Constructed(View(Constructed("cov"))))>>
      \o (IF Width(cov) % 2 = 0
          THEN <<Event("*=", Constructed(View(Constructed("cov"))))>> ELSE <<>>)
      \o (IF Height(cov) % 2 = 0
          THEN <<Event("*=", Constructed(View(Constructed("cov"))))>> ELSE <<>>)
      \o (IF Height(cov) % 2 = 0 /\ Width(cov) % 2 = 0
          THEN <<Event("*=", Constructed(View(Constructed("cov"))))>> ELSE <<>>)

\* _get_rfft_scale, lines 13 to 17.
StepsOfGetScale(cov, rfft_scale) ==
    <<Event("_get_rfft_scale", "")>>
      \o (IF (cov = None) = (rfft_scale = None) THEN <<Raised>>
          ELSE IF rfft_scale # None THEN <<>>
          ELSE StepsOfScale(cov, None, NoSize))

\* _get_rfft2_scale, lines 200 to 204.
StepsOfGetScale2(cov, rfft2_scale) ==
    <<Event("_get_rfft2_scale", "")>>
      \o (IF (cov = None) = (rfft2_scale = None) THEN <<Raised>>
          ELSE IF rfft2_scale # None THEN <<>>
          ELSE StepsOfScale2(cov))

\* transform_irfft, lines 132 to 134, of a call whose outcome is r: the scale,
\* pack_rfft(z), the product (which raises when the shapes do not broadcast) and
\* the inverse transform.
StepsOfTransformIrfft(cov, rfft_scale, r) ==
    Then(StepsOfGetScale(cov, rfft_scale),
         StepsOfPack("z")
           \o (IF r.err = ErrBroadcast THEN <<Raised>> ELSE <<Event("irfft", "")>>))

\* transform_rfft, lines 151 and 152: the scale, rfft(y - loc), the quotient and
\* unpack_rfft.
StepsOfTransformRfft(cov, rfft_scale, r) ==
    Then(StepsOfGetScale(cov, rfft_scale),
         <<Event("rfft", "")>>
           \o (IF r.err = ErrBroadcast THEN <<Raised>> ELSE <<Event("unpack_rfft", "")>>))

\* transform_irfft2, lines 323 and 324: in pack_rfft2(z) * _get_rfft2_scale(...)
\* the left operand is evaluated first.
StepsOfTransformIrfft2(width, cov, rfft2_scale, r) ==
    Then(StepsOfPack2("z", width) \o StepsOfGetScale2(cov, rfft2_scale),
         IF r.err = ErrBroadcast THEN <<Raised>> ELSE <<Event("irfft2", "")>>)

\* transform_rfft2, lines 342 and 343: the scale, rfft2(y - loc), the quotient
\* and unpack_rfft2.
StepsOfTransformRfft2(cov, rfft2_scale, r) ==
    Then(StepsOfGetScale2(cov, rfft2_scale),
         <<Event("rfft2", "")>>
           \o (IF r.err = ErrBroadcast THEN <<Raised>>
               ELSE IF r.err = ErrConcatenate THEN <<Event("unpack_rfft2", ""), Raised>>
               ELSE <<Event("unpack_rfft2", "")>>))

\* evaluate_rfft_log_abs_det_jacobian, lines 191 to 195: the scale, the
\* assertion and the sums of logarithms.
StepsOfJacobian(cov, rfft_scale, r) ==
    Then(StepsOfGetScale(cov, rfft_scale),
         IF r.err = ErrAssert THEN <<Raised>> ELSE <<Event("log", "")>>)

\* evaluate_rfft2_log_abs_det_jacobian, lines 360 to 385.
StepsOfJacobian2(cov, rfft2_scale, r) ==
    Then(StepsOfGetScale2(cov, rfft2_scale),
         IF r.err = ErrAssert THEN <<Raised>> ELSE <<Event("log", "")>>)

\* The nested calls of the log probability evaluators are given the covariance
\* again, and the scale only when there is no covariance.
NestedKwargsWithCov(cov, s) ==
    [cov |-> cov, scale |-> IF cov = None THEN s.val ELSE None]

\* The keyword arguments of the nested calls of the log probability evaluators
\* (lines 173 and 174, 405 and 407): rfft_scale=rfft_scale, the resolved scale
\* s, and no covariance.
NestedKwargs(cov, s) == [cov |-> None, scale |-> s.val]

\* The steps of the lines 173 and 174 for the keyword arguments kw of the nested
\* calls: transform_rfft, the sum of log_prob_stdnorm, and the Jacobian.
StepsOfLogProbWith(kw, r) ==
    Then(StepsOfTransformRfft(kw.cov, kw.scale, r),
         <<Event("log_prob_stdnorm", "")>> \o StepsOfJacobian(kw.cov, kw.scale, r))

\* evaluate_log_prob_rfft, lines 172 to 174.
StepsOfLogProb(cov, rfft_scale, r) ==
    Then(StepsOfGetScale(cov, rfft_scale),
         StepsOfLogProbWith(NestedKwargs(cov, _get_rfft_scale(cov, rfft_scale)), r))

\* The steps of the lines 405 to 407 for the keyword arguments kw of the nested
\* calls.
StepsOfLogProb2With(kw, r) ==
    Then(StepsOfTransformRfft2(kw.cov, kw.scale, r),
         <<Event("log_prob_stdnorm", "")>> \o StepsOfJacobian2(kw.cov, kw.scale, r))

\* evaluate_log_prob_rfft2, lines 404 to 407.
StepsOfLogProb2(cov, rfft2_scale, r) ==
    Then(StepsOfGetScale2(cov, rfft2_scale),
         StepsOfLogProb2With(NestedKwargs(cov, _get_rfft2_scale(cov, rfft2_scale)), r))

\* ------------------------------------------------- calls of the entry points

\* The vector and the matrix of distinct entries that the calls below pass as
\* z and as y.
Ramp(n) == Tup([i \in 1..n |-> RInt(i)])

Ramp2(height, width) ==
    Tup([r \in 1..height |-> Tup([c \in 1..width |-> RInt((r - 1) * width + c)])])

\* Means of the calls below.
Zeros(n) == Tup([i \in 1..n |-> RZero])

Zeros2(height, width) == Tup([r \in 1..height |-> Zeros(width)])

\* The trailing dimensions of the precomputed scales passed below: the one a size
\* up to MaxSize asks for, and others.
TrailingDims == 1..(MaxSize \div 2 + 2)

\* Precomputed scales of trailing dimension m: a constant one and one of
\* distinct entries.
ScalesOfDim(m) ==
    {Tup([i \in 1..m |-> Sqrt(QInt(4))]), Tup([i \in 1..m |-> Sqrt(QInt((i + 1) * (i + 1)))])}

Scales2OfDim(height, m) ==
    {Tup([r \in 1..height |-> Tup([i \in 1..m |-> Sqrt(QInt(4))])]),
     Tup([r \in 1..height |-> Tup([i \in 1..m |->
        Sqrt(QInt((Min(r - 1, height + 1 - r) * m + i + 1)
                  * (Min(r - 1, height + 1 - r) * m + i + 1)))])])}

\* The covariance arguments of a 1D call: absent, or the first row of a
\* covariance matrix of size n.
CovArgs(n) == {None} \cup {Arr(1, c) : c \in Covs(n)}

\* The precomputed scale arguments of a 1D call: absent, or a scale of any of
\* the trailing dimensions.
ScaleArgs == {None} \cup {Arr(1, e) : e \in UNION {ScalesOfDim(m) : m \in TrailingDims}}

\* The rfft arguments of evaluate_rfft_scale: absent, or the real parts of the
\* transform of a covariance.
RfftArgs(n) == {None} \cup {RfftReal(Arr(1, c)) : c \in Covs(n)}

CovArgs2(height, width) == {None} \cup Covs2(height, width)

ScaleArgs2(height) ==
    {None} \cup UNION {Scales2OfDim(height, m) : m \in 1..(MaxDim \div 2 + 2)}

EnterEvaluateRfftScale ==
    /\ pc = "idle"
    /\ \E n \in ExactSizes(MaxSize) : \E cov \in CovArgs(n), rfft_ \in RfftArgs(n) :
         /\ arg' = [fn |-> "evaluate_rfft_scale", size |-> n, cov |-> cov, scale |-> rfft_]
         /\ res' = evaluate_rfft_scale(cov, rfft_, IF rfft_ = None THEN NoSize ELSE n)
         /\ mid' = StepsOfScale(cov, rfft_, n)
    /\ pc' = "done"

EnterTransformIrfft ==
    /\ pc = "idle"
    /\ \E n \in ExactSizes(MaxSize) : \E cov \in CovArgs(n), rfft_scale \in ScaleArgs :
         /\ arg' = [fn |-> "transform_irfft", size |-> n, cov |-> cov, scale |-> rfft_scale]
         /\ res' = transform_irfft(Ramp(n), Zeros(n), cov, rfft_scale)
         /\ mid' = StepsOfTransformIrfft(cov, rfft_scale, res')
    /\ pc' = "done"

EnterTransformRfft ==
    /\ pc = "idle"
    /\ \E n \in ExactSizes(MaxSize) : \E cov \in CovArgs(n), rfft_scale \in ScaleArgs :
         /\ arg' = [fn |-> "transform_rfft", size |-> n, cov |-> cov, scale |-> rfft_scale]
         /\ res' = transform_rfft(Ramp(n), Zeros(n), cov, rfft_scale)
         /\ mid' = StepsOfTransformRfft(cov, rfft_scale, res')
    /\ pc' = "done"

EnterEvaluateLogProbRfft ==
    /\ pc = "idle"
    /\ \E n \in ExactSizes(MaxSize) : \E cov \in CovArgs(n), rfft_scale \in ScaleArgs :
         /\ arg' = [fn |-> "evaluate_log_prob_rfft", size |-> n, cov |-> cov,
                    scale |-> rfft_scale]
         /\ res' = evaluate_log_prob_rfft(Ramp(n), Zeros(n), cov, rfft_scale)
         /\ mid' = StepsOfLogProb(cov, rfft_scale, res')
    /\ pc' = "done"

EnterJacobian ==
    /\ pc = "idle"
    /\ \E n \in ExactSizes(MaxSize) : \E cov \in CovArgs(n), rfft_scale \in ScaleArgs :
         /\ arg' = [fn |-> "evaluate_rfft_log_abs_det_jacobian", size |-> n, cov |-> cov,
                    scale |-> rfft_scale]
         /\ res' = evaluate_rfft_log_abs_det_jacobian(n, cov, rfft_scale)
         /\ mid' = StepsOfJacobian(cov, rfft_scale, res')
    /\ pc' = "done"

EnterTransformIrfft2 ==
    /\ pc = "idle"
    /\ \E height \in ExactSizes(MaxDim), width \in ExactSizes(MaxDim) :
         \E cov \in CovArgs2(height, width), rfft2_scale \in ScaleArgs2(height) :
           /\ arg' = [fn |-> "transform_irfft2", size |-> width, cov |-> cov,
                      scale |-> rfft2_scale]
           /\ res' = transform_irfft2(Ramp2(height, width), Zeros2(height, width),
                                      cov, rfft2_scale)
           /\ mid' = StepsOfTransformIrfft2(width, cov, rfft2_scale, res')
    /\ pc' = "done"

EnterTransformRfft2 ==
    /\ pc = "idle"
    /\ \E height \in ExactSizes(MaxDim), width \in ExactSizes(MaxDim) :
         \E cov \in CovArgs2(height, width), rfft2_scale \in ScaleArgs2(height) :
           /\ arg' = [fn |-> "transform_rfft2", size |-> width, cov |-> cov,
                      scale |-> rfft2_scale]
           /\ res' = transform_rfft2(Ramp2(height, width), Zeros2(height, width),
                                     cov, rfft2_scale)
           /\ mid' = StepsOfTransformRfft2(cov, rfft2_scale, res')
    /\ pc' = "done"

EnterEvaluateLogProbRfft2 ==
    /\ pc = "idle"
    /\ \E height \in ExactSizes(MaxDim), width \in ExactSizes(MaxDim) :
         \E cov \in CovArgs2(height, width), rfft2_scale \in ScaleArgs2(height) :
           /\ arg' = [fn |-> "evaluate_log_prob_rfft2", size |-> width, cov |-> cov,
                      scale |-> rfft2_scale]
           /\ res' = evaluate_log_prob_rfft2(Ramp2(height, width), Zeros2(height, width),
                                             cov, rfft2_scale)
           /\ mid' = StepsOfLogProb2(cov, rfft2_scale, res')
    /\ pc' = "done"

EnterJacobian2 ==
    /\ pc = "idle"
    /\ \E height \in ExactSizes(MaxDim), width \in ExactSizes(MaxDim) :
         \E cov \in CovArgs2(height, width), rfft2_scale \in ScaleArgs2(height) :
           /\ arg' = [fn |-> "evaluate_rfft2_log_abs_det_jacobian", size |-> width,
                      cov |-> cov, scale |-> rfft2_scale]
           /\ res' = evaluate_rfft2_log_abs_det_jacobian(width, cov, rfft2_scale)
           /\ mid' = StepsOfJacobian2(cov, rfft2_scale, res')
    /\ pc' = "done"

NextCalls ==
    \/ EnterEvaluateRfftScale
    \/ EnterTransformIrfft
    \/ EnterTransformRfft
    \/ EnterEvaluateLogProbRfft
    \/ EnterJacobian
    \/ EnterTransformIrfft2
    \/ EnterTransformRfft2
    \/ EnterEvaluateLogProbRfft2
    \/ EnterJacobian2
    \/ Return

SpecCalls == Init /\ [][NextCalls]_vars

\* The errors of the exactly-one-of checks.
ArgumentErrors == {ErrExactlyOne1, ErrExactlyOne2, ErrExclusiveKwargs}

\* C4: every entry point that takes a covariance and a precomputed scale
\* (evaluate_rfft_scale: a covariance and rfft) raises the error of its
\* exactly-one-of check and returns nothing when both are given and when
\* neither is given, and does not raise that error when exactly one is given.
C4_MutualExclusivity ==
    pc = "done" =>
      IF (arg.cov = None) = (arg.scale = None)
      THEN res.err \in ArgumentErrors /\ res.val = None
      ELSE res.err \notin ArgumentErrors

\* A 2D log probability was asked for with a covariance and a precomputed scale
\* of the right shape, and the call raised.
C4_Witness ==
    /\ pc = "done"
    /\ arg.fn = "evaluate_log_prob_rfft2"
    /\ arg.cov # None
    /\ arg.scale # None
    /\ Width(arg.scale) = arg.size \div 2 + 1
    /\ res = Raise(ErrExactlyOne2)



\* ------------------------------------------- mutation, order and evaluations

\* The storages of the arrays a caller supplies.
CallerStorages == {"cov", "rfft", "rfft_scale", "rfft2_scale", "z", "y", "loc"}

\* C11: in every call of the scale evaluators, codecs, transforms, Jacobian and
\* log-probability evaluators no in-place operation writes the storage of an
\* array of the caller (cov, rfft, the precomputed scale, z, y, loc): every
\* in-place rescaling and coefficient write acts on an array constructed in the
\* call, so the arrays of the caller hold the same values after the call.
C11_NoCallerVisibleMutation ==
    pc = "done" => \A i \in 1..Len(mid) : mid[i].on \notin CallerStorages

\* The scale of an even size was evaluated from the rfft of the caller: both
\* rescalings wrote an array constructed in the call.
C11_Witness ==
    /\ pc = "done"
    /\ arg.fn = "evaluate_rfft_scale"
    /\ arg.cov = None
    /\ arg.scale # None
    /\ arg.size = 4
    /\ ~IsErr(res)
    /\ mid = <<Event("evaluate_rfft_scale", ""), Event("*=", "local"), Event("*=", "local")>>

\* The steps that resolve the scale, and the steps that pack, transform or
\* unpack.
EvaluateSteps == {"evaluate_rfft_scale", "evaluate_rfft2_scale"}

WorkSteps ==
    {"pack_rfft", "pack_rfft2", "+=", "=", "rfft", "irfft", "rfft2", "irfft2",
     "unpack_rfft", "unpack_rfft2"}

TransformsAndLogProbs ==
    {"transform_irfft", "transform_rfft", "transform_irfft2", "transform_rfft2",
     "evaluate_log_prob_rfft", "evaluate_log_prob_rfft2"}

\* C13 as stated: in every transform and log-probability call (1D and 2D) the
\* scale is resolved, the exactly-one-of check included, before any packing, FFT
\* or unpacking step of the call runs, and the transform runs before the
\* log-density is summed; a call with an invalid combination of arguments fails
\* before any pack or transform step has run.
C13_ScaleResolvedFirst ==
    pc = "done" /\ arg.fn \in TransformsAndLogProbs =>
      /\ mid[1].step \in {"_get_rfft_scale", "_get_rfft2_scale"}
      /\ \A i, j \in 1..Len(mid) :
           mid[i].step \in WorkSteps /\ mid[j].step \in EvaluateSteps => j < i
      /\ (arg.cov = None) = (arg.scale = None) =>
           \A i \in 1..Len(mid) : mid[i].step \notin WorkSteps
      /\ \A i \in 1..Len(mid) :
           mid[i].step = "log_prob_stdnorm" =>
             \E j \in 1..(i - 1) : mid[j].step \in {"unpack_rfft", "unpack_rfft2"}

\* The number of runs of the scale evaluators in the call.
Evaluations == Cardinality({i \in 1..Len(mid) : mid[i].step \in EvaluateSteps})

\* C14: in a top-level call of a transform, Jacobian or log-probability function
\* (1D and 2D) evaluate_rfft_scale / evaluate_rfft2_scale runs at most once when
\* a covariance is supplied and not at all when a precomputed scale is supplied:
\* the nested calls of the log-probability evaluators never evaluate it again.
C14_ScaleEvaluatedAtMostOnce ==
    pc = "done" /\ arg.fn # "evaluate_rfft_scale" =>
      /\ Evaluations <= 1
      /\ arg.scale # None => Evaluations = 0

\* A 2D log probability was evaluated from a covariance: the scale was resolved
\* three times, by the call and by its two nested calls, and evaluated once.
C14_Witness ==
    /\ pc = "done"
    /\ arg.fn = "evaluate_log_prob_rfft2"
    /\ arg.cov # None
    /\ arg.scale = None
    /\ ~IsErr(res)
    /\ Evaluations = 1
    /\ Cardinality({i \in 1..Len(mid) : mid[i].step = "_get_rfft2_scale"}) = 3

\* The trailing dimension of the precomputed scale of the call.
ScaleTrailingDim ==
    IF arg.fn \in {"transform_irfft", "transform_rfft", "evaluate_log_prob_rfft",
                   "evaluate_rfft_log_abs_det_jacobian"}
    THEN LastDim(arg.scale) ELSE Width(arg.scale)

\* The call was given a precomputed scale alone whose trailing dimension is not
\* size // 2 + 1 (1D) or width // 2 + 1 (2D).
ScaleMismatched ==
    /\ pc = "done"
    /\ arg.fn # "evaluate_rfft_scale"
    /\ arg.cov = None
    /\ arg.scale # None
    /\ ScaleTrailingDim # arg.size \div 2 + 1

\* The errors a scale of the wrong shape raises.
ShapeErrors == {ErrAssert, ErrBroadcast, ErrConcatenate}

\* C9 as stated: every operation that accepts a precomputed scale raises a
\* shape-mismatch error and returns nothing whenever the trailing dimension of
\* the scale differs from size // 2 + 1 (1D) or width // 2 + 1 (2D), the
\* trailing dimension 1 included.
C9_ShapeMismatchRaises ==
    ScaleMismatched => res.err \in ShapeErrors /\ res.val = None


\* ------------------------------------------------------ the scale evaluators

\* Real parts of transforms handed to evaluate_rfft_scale as its rfft argument:
\* every vector of m positive integers up to MaxVal + 2.
RfftRealParts(m) == {Tup([i \in 1..m |-> RInt(f[i])]) : f \in [1..m -> 1..(MaxVal + 2)]}

\* First rows of covariance matrices for the scale evaluator: c0 on the
\* diagonal and c1 between neighbours, positive definite as c0 > 2 * c1.
ScaleCovs(n) ==
    {Tup([i \in 1..n |-> RInt(IF i = 1 THEN c0 ELSE IF i = 2 \/ i = n THEN c1 ELSE 0)]) :
     c0 \in 5..(MaxVal + 6), c1 \in 0..2}

\* Covariance blocks for the 2D scale evaluator: c0 at the origin, c1 between
\* vertical and c2 between horizontal neighbours, with c0 > 2 * c1 + 2 * c2.
ScaleCovs2(height, width) ==
    {Tup([r \in 1..height |-> Tup([c \in 1..width |->
        RInt(IF r = 1 /\ c = 1 THEN c0
             ELSE IF c = 1 /\ (r = 2 \/ r = height) THEN c1
             ELSE IF r = 1 /\ (c = 2 \/ c = width) THEN c2
             ELSE 0)])]) :
     c0 \in 5..(MaxVal + 5), c1 \in 0..1, c2 \in 0..1}

CallScaleOfCov ==
    /\ pc = "idle"
    /\ \E n \in ExactSizes(MaxSize) : \E cov \in ScaleCovs(n) :
         /\ arg' = [fn |-> "evaluate_rfft_scale", size |-> n, cov |-> cov,
                    rfft |-> RealParts(rfft(cov))]
         /\ res' = evaluate_rfft_scale(Arr(1, cov), None, NoSize)
    /\ pc' = "done"
    /\ mid' = None

CallScaleOfRfft ==
    /\ pc = "idle"
    /\ \E n \in 1..(MaxSize + 2) : \E rfft_ \in RfftRealParts(n \div 2 + 1) :
         /\ arg' = [fn |-> "evaluate_rfft_scale", size |-> n, cov |-> None, rfft |-> rfft_]
         /\ res' = evaluate_rfft_scale(None, Arr(1, rfft_), n)
    /\ pc' = "done"
    /\ mid' = None

CallScale2 ==
    /\ pc = "idle"
    /\ \E height \in ExactSizes(MaxGrid), width \in ExactSizes(MaxGrid) :
         \E cov \in ScaleCovs2(height, width) :
           /\ arg' = [fn |-> "evaluate_rfft2_scale", shape |-> <<height, width>>,
                      cov |-> cov, rfft |-> RealPartsOfMatrix(rfft2(cov))]
           /\ res' = Ok(evaluate_rfft2_scale(cov))
    /\ pc' = "done"
    /\ mid' = None

NextScale ==
    \/ CallScaleOfCov
    \/ CallScaleOfRfft
    \/ CallScale2
    \/ Return

SpecScale == Init /\ [][NextScale]_vars

\* sqrt(size * re / 2 * factor), held as its square.
ScaleEntry(size, re, factor) == Sqrt(QMul(QMul(re.x, Q3(size, 0, 2)), QInt(factor)))

\* C5: evaluate_rfft_scale returns size // 2 + 1 entries; entry 0 is
\* sqrt(size * rfft_real / 2) * sqrt(2), so is the last entry if and only if the
\* size is even, and every other entry is sqrt(size * rfft_real / 2).
C5_RescaledPositions1D ==
    pc = "done" /\ arg.fn = "evaluate_rfft_scale" =>
      /\ ~IsErr(res)
      /\ res.val.ndim = 1
      /\ Len(res.val.v) = arg.size \div 2 + 1
      /\ \A i \in 0..(arg.size \div 2) :
           res.val.v[i + 1] =
             ScaleEntry(arg.size, arg.rfft[i + 1],
                        IF i = 0 \/ (arg.size % 2 = 0 /\ i = arg.size \div 2) THEN 2 ELSE 1)

\* The scale of a covariance of size 4 was evaluated: three entries, of which the
\* middle one alone carries no extra factor.
C5_Witness ==
    /\ pc = "done"
    /\ arg.fn = "evaluate_rfft_scale"
    /\ arg.size = 4
    /\ arg.cov # None
    /\ Len(res.val.v) = 3
    /\ res.val.v[2] = ScaleEntry(4, arg.rfft[2], 1)
    /\ res.val.v[3] = ScaleEntry(4, arg.rfft[3], 2)
    /\ ScaleEntry(4, arg.rfft[3], 2) # ScaleEntry(4, arg.rfft[3], 1)

\* The positions (row, column) that the claim C6 names for a height and a width.
RealOnlyPositions(height, width) ==
    {<<0, 0>>}
    \cup (IF width % 2 = 0 THEN {<<0, width \div 2>>} ELSE {})
    \cup (IF height % 2 = 0 THEN {<<height \div 2, 0>>} ELSE {})
    \cup (IF height % 2 = 0 /\ width % 2 = 0 THEN {<<height \div 2, width \div 2>>} ELSE {})

\* How many positions the claim C6 names.
NumRealOnly(height, width) ==
    1 + (IF width % 2 = 0 THEN 1 ELSE 0) + (IF height % 2 = 0 THEN 1 ELSE 0)
      + (IF height % 2 = 0 /\ width % 2 = 0 THEN 1 ELSE 0)

\* C6: evaluate_rfft2_scale returns height x (width // 2 + 1) entries; the value
\* under the root is size * rfft2_real / 2 times 2 at (0, 0), at (0, width / 2)
\* for an even width, at (height / 2, 0) for an even height and at
\* (height / 2, width / 2) when both are even, and size * rfft2_real / 2
\* everywhere else; the named positions are pairwise distinct.
C6_RescaledPositions2D ==
    pc = "done" /\ arg.fn = "evaluate_rfft2_scale" =>
      /\ HasShape(res.val, arg.shape[1], arg.shape[2] \div 2 + 1)
      /\ Cardinality(RealOnlyPositions(arg.shape[1], arg.shape[2]))
           = NumRealOnly(arg.shape[1], arg.shape[2])
      /\ \A r \in 0..(arg.shape[1] - 1) : \A c \in 0..(arg.shape[2] \div 2) :
           res.val[r + 1][c + 1] =
             ScaleEntry(arg.shape[1] * arg.shape[2], arg.rfft[r + 1][c + 1],
                        IF <<r, c>> \in RealOnlyPositions(arg.shape[1], arg.shape[2])
                        THEN 2 ELSE 1)

\* The scale of a 4 x 4 covariance block was evaluated: four entries carry the
\* factor and the entry (1, 1) does not.
C6_Witness ==
    /\ pc = "done"
    /\ arg.fn = "evaluate_rfft2_scale"
    /\ arg.shape = <<4, 4>>
    /\ res.val[3][3] = ScaleEntry(16, arg.rfft[3][3], 2)
    /\ res.val[3][3] # ScaleEntry(16, arg.rfft[3][3], 1)
    /\ res.val[2][2] = ScaleEntry(16, arg.rfft[2][2], 1)


\* ------------------------------------------------------------ the Jacobians

\* The squares of the entries of the scales of the Jacobian checks: the
\* logarithms of 2, 3 and 5 are linearly independent over the rationals, so two
\* sums of logarithms of these entries are equal only if they hold the same
\* entries the same number of times.
LogIndependentSquares == {4, 9, 25}

\* Precomputed scales of m entries for the 1D Jacobian.
JacobianScales(m) ==
    {Tup([i \in 1..m |-> Sqrt(QInt(f[i]))]) : f \in [1..m -> LogIndependentSquares]}

\* Precomputed height x ncols scales for the 2D Jacobian: every entry differs
\* from every other.
JacobianScales2(height, ncols) ==
    {Tup([r \in 1..height |-> Tup([c \in 1..ncols |->
        Sqrt(QInt(q + (r - 1) * ncols + c))])]) : q \in 1..(MaxVal + 1)}

CallJacobianOfScale ==
    /\ pc = "idle"
    /\ \E n \in 1..(MaxSize + 2) : \E s \in JacobianScales(n \div 2 + 1) :
         /\ arg' = [fn |-> "evaluate_rfft_log_abs_det_jacobian", size |-> n, cov |-> None,
                    scale |-> s]
         /\ res' = evaluate_rfft_log_abs_det_jacobian(n, None, Arr(1, s))
    /\ pc' = "done"
    /\ mid' = None

CallJacobianOfCov ==
    /\ pc = "idle"
    /\ \E n \in ExactSizes(MaxSize) : \E cov \in ScaleCovs(n) :
         /\ arg' = [fn |-> "evaluate_rfft_log_abs_det_jacobian", size |-> n, cov |-> cov,
                    scale |-> evaluate_rfft_scale(Arr(1, cov), None, NoSize).val.v]
         /\ res' = evaluate_rfft_log_abs_det_jacobian(n, Arr(1, cov), None)
    /\ pc' = "done"
    /\ mid' = None

CallJacobian2OfScale ==
    /\ pc = "idle"
    /\ \E height \in 1..MaxGrid, width \in 1..MaxGrid :
         \E s \in JacobianScales2(height, width \div 2 + 1) :
           /\ arg' = [fn |-> "evaluate_rfft2_log_abs_det_jacobian",
                      shape |-> <<height, width>>, cov |-> None, scale |-> s]
           /\ res' = evaluate_rfft2_log_abs_det_jacobian(width, None, s)
    /\ pc' = "done"
    /\ mid' = None

CallJacobian2OfCov ==
    /\ pc = "idle"
    /\ \E height \in ExactSizes(MaxGrid), width \in ExactSizes(MaxGrid) :
         \E cov \in ScaleCovs2(height, width) :
           /\ arg' = [fn |-> "evaluate_rfft2_log_abs_det_jacobian",
                      shape |-> <<height, width>>, cov |-> cov,
                      scale |-> evaluate_rfft2_scale(cov)]
           /\ res' = evaluate_rfft2_log_abs_det_jacobian(width, cov, None)
    /\ pc' = "done"
    /\ mid' = None

NextJacobian ==
    \/ CallJacobianOfScale
    \/ CallJacobianOfCov
    \/ CallJacobian2OfScale
    \/ CallJacobian2OfCov
    \/ Return

SpecJacobian == Init /\ [][NextJacobian]_vars

\* The sum of k logarithms of the entry e.
Copies(e, k) == IF k = 0 THEN EmptyBag ELSE [x \in {e} |-> k]

\* How often the claim C7 counts the logarithm of the entry of index i.
TimesCounted(size, i) ==
    IF i = 0 THEN 1
    ELSE IF i <= (size - 1) \div 2 THEN 2
    ELSE IF size % 2 = 0 /\ i = size \div 2 THEN 1
    ELSE 0

\* C7: for a scale s of size // 2 + 1 entries the 1D Jacobian is
\* - sum_{i = 0}^{size // 2} log(s_i) - sum_{i = 1}^{ceil(size / 2) - 1} log(s_i)
\* - log(2) * floor((size - 1) / 2) + size * log(size) / 2: log(s_0) once, the
\* logarithm of every strictly complex index 1..(size - 1) // 2 twice, that of the
\* Nyquist entry once for an even size, and log(2) once per strictly complex
\* coefficient.
C7_JacobianFormula1D ==
    pc = "done" /\ arg.fn = "evaluate_rfft_log_abs_det_jacobian" =>
      /\ ~IsErr(res)
      /\ res.val.ndim = 0
      /\ res.val.v.logs =
           LogSum(arg.scale) (+) LogSum(SubSeq(arg.scale, 2, (arg.size + 1) \div 2))
      /\ res.val.v.logs =
           SumOfParts(Tup([i \in 1..Len(arg.scale) |->
              Copies(arg.scale[i], TimesCounted(arg.size, i - 1))]))
      /\ res.val.v.log2 = (arg.size - 1) \div 2
      /\ res.val.v.log2 = Cardinality({i \in 0..(arg.size \div 2) : TimesCounted(arg.size, i) = 2})
      /\ res.val.v.size = arg.size

\* The Jacobian of a scale of size 6 with four entries was evaluated:
\* the entries 1 and 2 are counted twice, the entries 0 and 3 once.
C7_Witness ==
    /\ pc = "done"
    /\ arg.fn = "evaluate_rfft_log_abs_det_jacobian"
    /\ arg.size = 6
    /\ arg.scale = <<Sqrt(QInt(4)), Sqrt(QInt(9)), Sqrt(QInt(25)), Sqrt(QInt(4))>>
    /\ res.val.v.logs = Copies(Sqrt(QInt(4)), 2) (+) Copies(Sqrt(QInt(9)), 2)
                          (+) Copies(Sqrt(QInt(25)), 2)
    /\ res.val.v.log2 = 2

\* A matrix of coefficients whose entry at (r, c) names its position and its
\* part, for every position of the scale s.
Tagged(s) ==
    Tup([r \in 1..Len(s) |-> Tup([c \in 1..Len(s[r]) |->
       Cx([pos |-> <<r, c>>, part |-> "re"], [pos |-> <<r, c>>, part |-> "im"])])])

\* For every entry of the unpacked matrix the position and the part of the
\* coefficient unpack_rfft2 reads it from, row after row.
ReadsOfUnpack(s, shape) == Flattened(unpack_rfft2(Tagged(s), shape))

\* The entries of a sequence.
Range(s) == {s[i] : i \in 1..Len(s)}

\* How often the claim C8 counts the logarithm of the entry in row r and column
\* c (from 0) of the scale.
TimesCounted2(height, width, r, c) ==
    IF c = 0 \/ (width % 2 = 0 /\ c = width \div 2)
    THEN (IF r <= height \div 2 THEN 1 ELSE 0)
         + (IF 1 <= r /\ r <= (height - 1) \div 2 THEN 1 ELSE 0)
    ELSE 2

\* C8: the 2D Jacobian sums one logarithm of the scale for each entry of the
\* height x width unpacked matrix, at the position unpack_rfft2 reads the entry
\* from (first column and, for an even width, last column: rows 0..height // 2
\* once and rows 1..(height - 1) // 2 once more; the interior columns: every row
\* twice), and its multiplier of log(2) is (height * width - 1) // 2, less 1 when
\* both are even, the number of coefficients read for a real and for an
\* imaginary part.
C8_JacobianTerms2D ==
    pc = "done" /\ arg.fn = "evaluate_rfft2_log_abs_det_jacobian" =>
      /\ ~IsErr(res)
      /\ Len(ReadsOfUnpack(arg.scale, arg.shape)) = arg.shape[1] * arg.shape[2]
      /\ BagCardinality(res.val.v.logs) = arg.shape[1] * arg.shape[2]
      /\ res.val.v.logs =
           SumOfParts(Tup([i \in 1..(arg.shape[1] * arg.shape[2]) |->
              Copies(arg.scale[ReadsOfUnpack(arg.scale, arg.shape)[i].pos[1]]
                              [ReadsOfUnpack(arg.scale, arg.shape)[i].pos[2]], 1)]))
      /\ res.val.v.logs =
           SumOfParts(Tup([r \in 1..arg.shape[1] |->
              SumOfParts(Tup([c \in 1..(arg.shape[2] \div 2 + 1) |->
                 Copies(arg.scale[r][c],
                        TimesCounted2(arg.shape[1], arg.shape[2], r - 1, c - 1))]))]))
      /\ res.val.v.log2 =
           (arg.shape[1] * arg.shape[2] - 1) \div 2
             - (IF arg.shape[1] % 2 = 0 /\ arg.shape[2] % 2 = 0 THEN 1 ELSE 0)
      /\ res.val.v.log2 =
           Cardinality({p \in (1..arg.shape[1]) \X (1..(arg.shape[2] \div 2 + 1)) :
              /\ [pos |-> p, part |-> "re"] \in Range(ReadsOfUnpack(arg.scale, arg.shape))
              /\ [pos |-> p, part |-> "im"] \in Range(ReadsOfUnpack(arg.scale, arg.shape))})
      /\ res.val.v.size = arg.shape[1] * arg.shape[2]

\* The Jacobian of a 4 x 4 grid was evaluated for a scale of distinct entries:
\* six coefficients are read for both parts, and the Nyquist-of-Nyquist entry is
\* counted once.
C8_Witness ==
    /\ pc = "done"
    /\ arg.fn = "evaluate_rfft2_log_abs_det_jacobian"
    /\ arg.shape = <<4, 4>>
    /\ arg.cov = None
    /\ res.val.v.log2 = 6
    /\ CopiesIn(arg.scale[3][3], res.val.v.logs) = 1
    /\ CopiesIn(arg.scale[2][2], res.val.v.logs) = 2
    /\ CopiesIn(arg.scale[4][1], res.val.v.logs) = 0


\* ------------------------------------------------------------------ batches

\* The batches of two and of three rows drawn from a set of vectors.
Batches(rows) ==
    {<<a, b>> : a \in rows, b \in rows} \cup {<<a, b, c>> : a \in rows, b \in rows, c \in rows}

\* Rows of precomputed scales of m entries: the constant rows and a row that
\* varies with the frequency.
BatchScales(m) ==
    {Tup([i \in 1..m |-> Sqrt(QInt(q))]) : q \in LogIndependentSquares}
      \cup {Tup([i \in 1..m |-> Sqrt(QInt(IF i % 2 = 1 THEN 4 ELSE 9))])}

CallScaleOfCovBatch ==
    /\ pc = "idle"
    /\ \E n \in ExactSizes(MaxSize) : \E cov \in Batches(Covs(n)) :
         /\ arg' = [fn |-> "evaluate_rfft_scale", size |-> n, cov |-> Arr(2, cov),
                    scale |-> None]
         /\ res' = evaluate_rfft_scale(Arr(2, cov), None, NoSize)
    /\ pc' = "done"
    /\ mid' = None

CallScaleOfRfftBatch ==
    /\ pc = "idle"
    /\ \E n \in ExactSizes(MaxSize) : \E cov \in Batches(Covs(n)) :
         /\ arg' = [fn |-> "evaluate_rfft_scale", size |-> n, cov |-> None,
                    scale |-> RfftReal(Arr(2, cov))]
         /\ res' = evaluate_rfft_scale(None, RfftReal(Arr(2, cov)), n)
    /\ pc' = "done"
    /\ mid' = None

CallJacobianOfScaleBatch ==
    /\ pc = "idle"
    /\ \E n \in 1..(MaxSize + 2) : \E s \in Batches(BatchScales(n \div 2 + 1)) :
         /\ arg' = [fn |-> "evaluate_rfft_log_abs_det_jacobian", size |-> n, cov |-> None,
                    scale |-> Arr(2, s)]
         /\ res' = evaluate_rfft_log_abs_det_jacobian(n, None, Arr(2, s))
    /\ pc' = "done"
    /\ mid' = None

CallJacobianOfCovBatch ==
    /\ pc = "idle"
    /\ \E n \in ExactSizes(MaxSize) : \E cov \in Batches(Covs(n)) :
         /\ arg' = [fn |-> "evaluate_rfft_log_abs_det_jacobian", size |-> n,
                    cov |-> Arr(2, cov), scale |-> None]
         /\ res' = evaluate_rfft_log_abs_det_jacobian(n, Arr(2, cov), None)
    /\ pc' = "done"
    /\ mid' = None

CallLogProbOfScaleBatch ==
    /\ pc = "idle"
    /\ \E n \in ExactSizes(MaxSize) : \E s \in Batches(BatchScales(n \div 2 + 1)) :
         /\ arg' = [fn |-> "evaluate_log_prob_rfft", size |-> n, cov |-> None,
                    scale |-> Arr(2, s)]
         /\ res' = evaluate_log_prob_rfft(Ramp(n), Zeros(n), None, Arr(2, s))
    /\ pc' = "done"
    /\ mid' = None

CallLogProbOfCovBatch ==
    /\ pc = "idle"
    /\ \E n \in ExactSizes(MaxSize) : \E cov \in Batches(Covs(n)) :
         /\ arg' = [fn |-> "evaluate_log_prob_rfft", size |-> n, cov |-> Arr(2, cov),
                    scale |-> None]
         /\ res' = evaluate_log_prob_rfft(Ramp(n), Zeros(n), Arr(2, cov), None)
    /\ pc' = "done"
    /\ mid' = None

NextBatch ==
    \/ CallScaleOfCovBatch
    \/ CallScaleOfRfftBatch
    \/ CallJacobianOfScaleBatch
    \/ CallJacobianOfCovBatch
    \/ CallLogProbOfScaleBatch
    \/ CallLogProbOfCovBatch
    \/ Return

SpecBatch == Init /\ [][NextBatch]_vars

\* Element k of a batch argument, or the absent argument.
Element(a, k) == IF a = None THEN None ELSE Arr(1, a.v[k])

\* The number of elements of the batch of a call.
BatchSize(a) == IF a.cov = None THEN Len(a.scale.v) ELSE Len(a.cov.v)

\* The value of the unbatched call on element k of the batch of the call a.
Unbatched(a, k) ==
    IF a.fn = "evaluate_rfft_scale"
    THEN evaluate_rfft_scale(Element(a.cov, k), Element(a.scale, k),
                             IF a.cov = None THEN a.size ELSE NoSize).val.v
    ELSE IF a.fn = "evaluate_rfft_log_abs_det_jacobian"
    THEN evaluate_rfft_log_abs_det_jacobian(a.size, Element(a.cov, k),
                                            Element(a.scale, k)).val.v
    ELSE evaluate_log_prob_rfft(Ramp(a.size), Zeros(a.size), Element(a.cov, k),
                                Element(a.scale, k)).val

\* C10: for a covariance or a precomputed scale with a leading batch axis of
\* b >= 2 elements, evaluate_rfft_scale, evaluate_rfft_log_abs_det_jacobian and
\* evaluate_log_prob_rfft return, for each batch element k, exactly the value
\* the unbatched call returns on element k alone.
C10_BatchIndependence ==
    pc = "done" =>
      /\ ~IsErr(res)
      /\ Len(res.val.v) = BatchSize(arg)
      /\ \A k \in 1..BatchSize(arg) : res.val.v[k] = Unbatched(arg, k)


\* --------------------------------------------------------- call_with_timeout

\* Largest timeout, in ticks of the clock of the caller.
MaxTimeout == 2

\* The timeouts of the calls: positive numbers, zero, and a value that is no
\* number.
Timeouts ==
    {[number |-> TRUE, seconds |-> t] : t \in 0..MaxTimeout}
      \cup {[number |-> FALSE, seconds |-> 0]}

\* The targets of the calls: one that returns a value, one that raises an
\* Exception, one that never returns, one whose process ends without a result
\* (it raises SystemExit), and a value that is not callable.
Targets == {"returns", "raises", "hangs", "exits", "not callable"}

\* A call of call_with_timeout is about to run: no process, no queue.
InitTimeout ==
    /\ pc = [parent |-> "validate", child |-> "none"]
    /\ arg \in [timeout : Timeouts, target : Targets]
    /\ mid = [queue |-> <<>>, clock |-> 0, item |-> None, signalled |-> FALSE,
              joined |-> FALSE]
    /\ res = None

\* Lines 37 to 40: the checks of the arguments.
Validate ==
    /\ pc.parent = "validate"
    /\ IF ~arg.timeout.number \/ arg.timeout.seconds <= 0
       THEN pc' = [pc EXCEPT !.parent = "done"] /\ res' = Raise("ValueError")
       ELSE IF arg.target = "not callable"
       THEN pc' = [pc EXCEPT !.parent = "done"] /\ res' = Raise("TypeError")
       ELSE pc' = [pc EXCEPT !.parent = "start"] /\ res' = res
    /\ UNCHANGED <<arg, mid>>

\* Lines 41 to 43: the queue and the process are made and the process starts.
Start ==
    /\ pc.parent = "start"
    /\ pc' = [parent |-> "get", child |-> "running"]
    /\ UNCHANGED <<arg, mid, res>>

\* Time passes while queue.get(timeout=timeout) waits.
Tick ==
    /\ pc.parent = "get"
    /\ mid.clock < arg.timeout.seconds
    /\ mid' = [mid EXCEPT !.clock = @ + 1]
    /\ UNCHANGED <<pc, arg, res>>

\* Line 46: queue.get returns the item of the queue.
Get ==
    /\ pc.parent = "get"
    /\ mid.queue # <<>>
    /\ mid' = [mid EXCEPT !.queue = Tail(@), !.item = Head(mid.queue)]
    /\ pc' = [pc EXCEPT !.parent = "result"]
    /\ UNCHANGED <<arg, res>>

\* Line 47: the timeout has passed with the queue empty and queue.get raises
\* Empty.
GetRaisesEmpty ==
    /\ pc.parent = "get"
    /\ mid.queue = <<>>
    /\ mid.clock = arg.timeout.seconds
    /\ pc' = [pc EXCEPT !.parent = "is_alive"]
    /\ UNCHANGED <<arg, mid, res>>

\* Lines 48 and 49: if process.is_alive(): process.terminate().
Terminate ==
    /\ pc.parent = "is_alive"
    /\ mid' = [mid EXCEPT !.signalled = pc.child # "dead"]
    /\ pc' = [pc EXCEPT !.parent = "join"]
    /\ UNCHANGED <<arg, res>>

\* TimeoutError is raised without the wait for the end of the process.
RaiseWithoutJoin ==
    /\ pc.parent = "join"
    /\ mid' = [mid EXCEPT !.joined = TRUE]
    /\ pc' = [pc EXCEPT !.parent = "done"]
    /\ res' = Raise("TimeoutError")
    /\ UNCHANGED arg

\* Lines 50 and 51: process.join() returns once the process has ended, and
\* TimeoutError is raised.
JoinAndRaise ==
    /\ pc.parent = "join"
    /\ pc.child = "dead"
    /\ mid' = [mid EXCEPT !.joined = TRUE]
    /\ pc' = [pc EXCEPT !.parent = "done"]
    /\ res' = Raise("TimeoutError")
    /\ UNCHANGED arg

\* Lines 52 to 55: RuntimeError for a target that raised, else its result.
Result ==
    /\ pc.parent = "result"
    /\ res' = IF mid.item.success THEN Ok(mid.item.result) ELSE Raise("RuntimeError")
    /\ pc' = [pc EXCEPT !.parent = "done"]
    /\ UNCHANGED <<arg, mid>>

\* _wrapper, lines 12 to 17: the target returns or raises an Exception; a
\* target that raises SystemExit ends the process.
RunTarget ==
    /\ pc.child = "running"
    /\ arg.target # "hangs"
    /\ pc' = [pc EXCEPT !.child = IF arg.target = "exits" THEN "dead" ELSE "ran"]
    /\ UNCHANGED <<arg, mid, res>>

\* _wrapper, line 18: queue.put_nowait((success, result)).
Put ==
    /\ pc.child = "ran"
    /\ mid' = [mid EXCEPT !.queue = Append(@,
                 IF arg.target = "returns"
                 THEN [success |-> TRUE, result |-> "return value"]
                 ELSE [success |-> FALSE, result |-> "traceback"])]
    /\ pc' = [pc EXCEPT !.child = "exiting"]
    /\ UNCHANGED <<arg, res>>

\* The process ends after _wrapper has returned.
Exit ==
    /\ pc.child = "exiting"
    /\ pc' = [pc EXCEPT !.child = "dead"]
    /\ UNCHANGED <<arg, mid, res>>

\* The signal of process.terminate() ends the process wherever it is.
Killed ==
    /\ mid.signalled
    /\ pc.child \in {"running", "ran", "exiting"}
    /\ pc' = [pc EXCEPT !.child = "dead"]
    /\ UNCHANGED <<arg, mid, res>>

NextTimeout ==
    \/ Validate
    \/ Start
    \/ Tick
    \/ Get
    \/ GetRaisesEmpty
    \/ Terminate
    \/ JoinAndRaise
    \/ Result
    \/ RunTarget
    \/ Put
    \/ Exit
    \/ Killed

SpecTimeout == InitTimeout /\ [][NextTimeout]_vars

\* The call has ended for a valid timeout and a callable target.
ValidCallEnded ==
    /\ pc.parent = "done"
    /\ res.err \notin {"ValueError", "TypeError"}

\* The process of the call is alive.
ChildAlive == pc.child \in {"running", "ran", "exiting"}

\* The outcome of the call: the return value of the target when the process
\* delivered it within the timeout, TimeoutError when the process delivered
\* nothing within the timeout.
OutcomeOfCall ==
    ValidCallEnded =>
      /\ ~IsErr(res) => /\ res.val = "return value"
                        /\ arg.target = "returns"
                        /\ mid.item = [success |-> TRUE, result |-> "return value"]
                        /\ mid.clock <= arg.timeout.seconds
      /\ mid.item # None /\ mid.item.success => res = Ok("return value")
      /\ res.err = "TimeoutError" <=> mid.item = None
      /\ res.err = "TimeoutError" => mid.clock = arg.timeout.seconds /\ mid.joined

\* C12 as stated: with a valid positive timeout and a callable target the call
\* returns the return value of the target when the process delivers a result
\* within the timeout and raises TimeoutError when none is delivered within
\* it, and no process of the call is alive after the call returns or raises
\* TimeoutError.
C12_NoChildAfterReturnOrTimeout ==
    /\ OutcomeOfCall
    /\ ValidCallEnded /\ (~IsErr(res) \/ res.err = "TimeoutError") => ~ChildAlive

\* C12, amended: the outcome as above; on the timeout path the process has been
\* terminated, if it was alive, and joined before TimeoutError propagates, so
\* no process of the call is alive after the call raises TimeoutError.
C12_NoChildAfterTimeout ==
    /\ OutcomeOfCall
    /\ ValidCallEnded /\ res.err = "TimeoutError" => ~ChildAlive
    /\ pc.parent = "join" /\ ChildAlive => mid.signalled

\* A call whose target never returns timed out: the process was terminated and
\* joined, and TimeoutError was raised.
C12_Witness ==
    /\ pc = [parent |-> "done", child |-> "dead"]
    /\ arg.target = "hangs"
    /\ arg.timeout.seconds = MaxTimeout
    /\ mid.signalled
    /\ mid.joined
    /\ res = Raise("TimeoutError")


\* -------------------------------------------------- the packed coefficients

CallPackRfft ==
    /\ pc = "idle"
    /\ \E n \in 1..MaxSize : \E z \in RealVectors(n), full_fft \in BOOLEAN :
         /\ arg' = [fn |-> "pack_rfft", z |-> z, size |-> n, full_fft |-> full_fft]
         /\ res' = pack_rfft(z, full_fft)
    /\ pc' = "done"
    /\ mid' = None

CallPackRfft2 ==
    /\ pc = "idle"
    /\ \E height \in 1..MaxDim, width \in 1..MaxDim :
         \E z \in RealMatrices(height, width) :
           /\ arg' = [fn |-> "pack_rfft2", z |-> z, shape |-> <<height, width>>]
           /\ res' = pack_rfft2(z)
    /\ pc' = "done"
    /\ mid' = None

NextPack == CallPackRfft \/ CallPackRfft2 \/ Return

SpecPack == Init /\ [][NextPack]_vars

\* The coefficients F packed from the real vector z of size n have a zero
\* imaginary part at index 0 and, for an even n, at index n // 2, and the
\* imaginary parts z[n // 2 + 1:] at the indices 1..(n - 1) // 2.
RealOnlyPacked(F, z, n) ==
    /\ F[1].im = RZero
    /\ n % 2 = 0 => F[n \div 2 + 1].im = RZero
    /\ \A k \in 1..((n - 1) \div 2) : F[k + 1].im = z[n \div 2 + 1 + k]

\* F has length n and F[n - k] = conj(F[k]) for every 1 <= k < n.
HermitianPacked(F, n) ==
    /\ Len(F) = n
    /\ \A k \in 1..(n - 1) : F[n - k + 1] = conj(F[k + 1])

\* C15: for every size n >= 1 and real z, pack_rfft(z) has a zero imaginary part
\* at index 0 and, for an even n, at the Nyquist index n // 2, and its imaginary
\* parts at the indices 1..(n - 1) // 2 are z[n // 2 + 1:]; with full_fft=True the
\* result has length n and F[n - k] = conj(F[k]) for 1 <= k < n; in pack_rfft2
\* the same holds down the first column and, for an even width, down the column
\* width // 2.
C15_RealOnlyAfterPacking ==
    /\ pc = "done" /\ arg.fn = "pack_rfft" =>
         /\ RealOnlyPacked(res, arg.z, arg.size)
         /\ arg.full_fft => HermitianPacked(res, arg.size)
    /\ pc = "done" /\ arg.fn = "pack_rfft2" =>
         /\ RealOnlyPacked(Column(res, 0), Column(arg.z, 0), arg.shape[1])
         /\ HermitianPacked(Column(res, 0), arg.shape[1])
         /\ arg.shape[2] % 2 = 0 =>
              /\ RealOnlyPacked(Column(res, arg.shape[2] \div 2),
                                Column(arg.z, arg.shape[2] - 1), arg.shape[1])
              /\ HermitianPacked(Column(res, arg.shape[2] \div 2), arg.shape[1])

\* A vector of size 4 with a non-zero last entry was packed to the full
\* spectrum: the coefficient 1 has that imaginary part, and the coefficient 3 is
\* its conjugate.
C15_Witness ==
    /\ pc = "done"
    /\ arg.fn = "pack_rfft"
    /\ arg.size = 4
    /\ arg.full_fft
    /\ arg.z[4] = RInt(1)
    /\ res[2].im = RInt(1)
    /\ res[4].im = RInt(-1)
    /\ res[3].im = RZero

=============================================================================
